---- MODULE Spec2Model ----
(***************************************************************************)
(* CountBot: the inbound message bus (EnterpriseMessageQueue), the channel *)
(* message handler (ChannelMessageHandler) and the cron scheduler          *)
(* (CronScheduler, CronService, the manual-run endpoint), as state         *)
(* machines translated from the Python sources.                            *)
(***************************************************************************)
EXTENDS Integers, Sequences, FiniteSets, TLC

(***************************************************************************)
(* Bounds of the model.                                                    *)
(***************************************************************************)
\* number of enqueue() calls the client of the queue makes (SpecBus)
MaxEnqueue == 2
\* last tick of the clock in SpecBus
MaxBusTime == 1
\* number of publish_inbound() calls the adapters make (SpecDedup, SpecHandler)
MaxPublish == 3
\* last tick of the clock (time.time(), in whole seconds)
MaxTime == 3
\* dedup_window the queue is constructed with, in ticks of the clock
DedupWindow == 2
\* number of cron jobs in the jobs table (SpecCron)
NumJobs == 2
\* last tick of the clock in SpecCron (one tick is one cron minute)
MaxCronTime == 1
\* number of timer tasks that exist at once (the armed one and cancelled ones still ending)
MaxTimers == 2
\* number of manual runs of one job in flight at once
MaxManual == 2
\* number of REST requests that update a job or run one by hand
MaxUpdates == 2
\* last tick of the clock in SpecSched (one tick is one cron minute)
MaxSchedTime == 2
\* number of outbound messages made (replies published and cron results delivered)
MaxOutbound == 3
\* number of consecutive restarts of an adapter that are followed
MaxRestarts == 8
\* number of inbound events the adapters get
MaxEvents == 4
\* number of message ids an adapter keeps (1000 in the adapters)
MaxProcessedIds == 2
\* number of messages added to the session
MaxMessages == 25
\* number of summarize_overflow calls made
MaxSumCalls == 2
\* number of append_entry calls made on the memory file
MaxAppends == 4
\* number of chunks the agent streams in one turn
MaxChunks == 3
\* number of messages saved in the session, and the last tick of its clock
MaxSaved == 4
MaxStampTime == 3
\* largest rate and per of a rate limiter, and the last tick of its clock
MaxRate == 3
MaxPer == 4
MaxRateTime == 3
\* requests made to the cron API
MaxRequests == 3
\* the last calendar day, the concurrent runs and the runs in all of the heartbeat
MaxHbDay == 1
MaxHbCalls == 2
MaxHbRuns == 4

(***************************************************************************)
(* MessagePriority (enterprise_queue.py:28-40)                             *)
(***************************************************************************)
LOW == 0
NORMAL == 1
HIGH == 2
URGENT == 3

Priorities == {LOW, NORMAL, HIGH, URGENT}

\* QueuedMessage.max_retries default
MaxRetries == 3

ScanOrderAscending == <<LOW, NORMAL, HIGH, URGENT>>

\* the order dequeue() scans the sub-queues in
ScanOrder == <<URGENT, HIGH, NORMAL, LOW>>

(***************************************************************************)
(* InboundMessage values the adapters hand in.  Two of them differ in      *)
(* chat_id and sender_id and still have the same fingerprint string.       *)
(***************************************************************************)
InboundMessages ==
    { [channel |-> "telegram", chat_id |-> "7",   sender_id |-> "9",   content |-> "hello"],
      [channel |-> "telegram", chat_id |-> "7:9", sender_id |-> "x",   content |-> "hi"],
      [channel |-> "telegram", chat_id |-> "7",   sender_id |-> "9:x", content |-> "hi"] }

HIds == 1..MaxPublish

Errors == {"boom"}

VARIABLES
    queues,             \* _queues: priority -> FIFO of QueuedMessage ids
    dead_letter_queue,  \* _dead_letter_queue: FIFO of <<id, error>>
    message_hashes,     \* _message_hashes: fingerprint -> timestamp
    metrics,            \* _metrics
    qmsgs,              \* the QueuedMessage objects created so far, by id
    now,                \* the clock
    held,               \* the QueuedMessage the consumer has dequeued and not yet marked (0: none)
    held_from,          \* the sub-queue held was taken from
    dq_waiting,         \* dequeue() is suspended in asyncio.wait
    dq_results,         \* the queue.get() tasks of the suspended dequeue() that completed: priority -> id
    enq_log,            \* history: the enqueue() calls made, <<fingerprint, time, returned>>
    last_op             \* history: the last queue operation and what it did

busVars == <<queues, dead_letter_queue, message_hashes, metrics, qmsgs, now,
             held, held_from, dq_waiting, dq_results, enq_log, last_op>>

VARIABLES
    h_pc,               \* handle_message tasks, by the id of the message they handle: where each is
    h_session,          \* the session_id each task resolved (0: none yet)
    sessions,           \* the sessions table: the name of each session, by id
    active_tasks,       \* ChannelMessageHandler._active_tasks: session_id -> the task whose token it holds
    saved,              \* the messages table: <<session_id, role, message id>> in insertion order
    outbound            \* _outbound: the replies published, <<message id, kind>>

hVars == <<h_pc, h_session, sessions, active_tasks, saved, outbound>>

VARIABLES
    db,                 \* the cron_jobs table: job id -> row
    running,            \* CronScheduler._running
    timer_task,         \* CronScheduler._timer_task (0: None)
    timers,             \* the schedule_next tasks: where each is, whether its cancellation was requested
    jt,                 \* the _execute_job_safe tasks, by the timer task that gathers them and the job
    active_jobs,        \* CronScheduler._active_jobs
    semaphore,          \* CronScheduler._semaphore, the free slots
    manual,             \* the _run_in_background tasks of trigger_cron_job in flight, per job
    stop_pc,            \* CronScheduler.stop: where it is
    grace_elapsed,      \* the 30 s of stop's asyncio.wait have passed
    updates             \* history: the number of update_job calls made

cronVars == <<db, running, timer_task, timers, jt, active_jobs, semaphore, manual,
              stop_pc, grace_elapsed, updates>>

VARIABLES
    mgr_running,        \* ChannelManager._running
    taken,              \* the number of messages consume_outbound has handed to the dispatcher
    sending,            \* the message the dispatcher has passed to an adapter's send (NoMsg: none)
    sent,               \* per registered adapter: the messages its send was called with, in call order
    dropped,            \* the messages the dispatcher logged as "Unknown channel" and dropped
    produced,           \* history: the outbound messages made so far, by id
    sup,                \* the _start_channel_supervised task of each adapter
    conns               \* per adapter: the client connections that are live

chanVars == <<mgr_running, taken, sending, sent, dropped, produced, sup, conns>>

VARIABLES
    stop_idx,           \* stop_all: 0 not called, i: about to call stop() of ChannelOrder[i], beyond: returned
    stop_log            \* history: the stop() calls stop_all made, <<adapter, outcome>>

stopVars == <<stop_idx, stop_log>>

VARIABLES
    processed_ids,      \* per adapter: _processed_ids, the message ids kept, oldest first
    events              \* history: the inbound events the adapters got, [channel, id, forwarded]

dedupVars == <<processed_ids, events>>

VARIABLES
    n_msgs,             \* the messages of the session: their number; their ids are 1..n_msgs in creation order
    last_summarized,    \* Session.last_summarized_msg_id (0: None)
    memory,             \* the entries appended to the memory file: [source, lo, hi], a summary of messages lo..hi
    sum,                \* the summarize_overflow calls in flight: where each is, the overflow messages it selected
    sum_calls,          \* history: the number of summarize_overflow calls made
    skipped             \* history: the ids passed over because fewer than 3 messages were selected

sumVars == <<n_msgs, last_summarized, memory, sum, sum_calls, skipped>>

VARIABLES
    memory_file,        \* MEMORY.md: its lines
    app,                \* the append_entry calls in flight: where each is, its entry, the lines it read
    returned            \* history: the entries whose append_entry call has returned

memVars == <<memory_file, app, returned>>

VARIABLES
    turn                \* the agent turn of each front end: where it is, the chunks collected,
                        \* its cancel token, whether the agent finished, the assistant message saved

turnVars == <<turn>>

VARIABLES
    s_clock,            \* the clock read by datetime.now(timezone.utc)
    s_updated_at,       \* Session.updated_at of the session
    s_messages,         \* the messages of the session: [role, created_at], in insertion order
    s_last              \* history: the role and the outcome of the last add_message call

stampVars == <<s_clock, s_updated_at, s_messages, s_last>>

VARIABLES
    rl_rate,            \* RateLimiter.rate (0: the limiter is not constructed yet)
    rl_per,             \* RateLimiter.per
    rl_now,             \* time.time(), in seconds
    rl_buckets,         \* RateLimiter._buckets: sender -> [tokens, last_update], tokens counted in 1/per
    rl_log              \* history: per sender the check calls made, [time, tokens, allowed, wait]

rateVars == <<rl_rate, rl_per, rl_now, rl_buckets, rl_log>>

VARIABLES
    api_jobs,           \* the cron_jobs table: job id -> [name, message, enabled, schedule]
    api_resp            \* history: the last request of the cron API and its HTTP status

apiVars == <<api_jobs, api_resp>>

VARIABLES
    hb_day,             \* the Shanghai calendar day of _now_shanghai()
    hb_count,           \* HeartbeatService._greet_count_today: day -> count
    hb_call,            \* the invocations of HeartbeatService.execute in progress
    hb_runs,            \* invocations started so far
    hb_greetings        \* history: day -> non-empty greetings returned by execute

hbVars == <<hb_day, hb_count, hb_call, hb_runs, hb_greetings>>

VARIABLES
    sub_in_tasks,       \* SubagentManager.tasks holds the task
    sub_task,           \* the SubagentTask object: [status, error]
    sub_running,        \* SubagentManager.running_tasks holds the task
    sub_run,            \* the asyncio task of _run_task: [pc, iteration, buffer, next, cancel_requested, stream_error]
    sub_messages,       \* _run_task: messages, without the system and the user message
    sub_deferred,       \* delete_task: the cancel_task call it left to the event loop
    sub_deleted         \* history: delete_task was called while the task was running

subVars == <<sub_in_tasks, sub_task, sub_running, sub_run, sub_messages, sub_deferred, sub_deleted>>

restVars == <<stopVars, dedupVars, sumVars, memVars, turnVars, stampVars, rateVars, apiVars, hbVars, subVars>>

coreVars == <<busVars, hVars, cronVars, chanVars>>

\* everything outside the channel manager
notStopVars == <<busVars, hVars, cronVars, dedupVars, sumVars, memVars, turnVars, stampVars, rateVars, apiVars, hbVars, subVars>>

\* everything but the adapters' inbound side
notDedupVars == <<coreVars, stopVars, sumVars, memVars, turnVars, stampVars, rateVars, apiVars, hbVars, subVars>>

\* everything but the session under summarize_overflow
notSumVars == <<coreVars, stopVars, dedupVars, memVars, turnVars, stampVars, rateVars, apiVars, hbVars, subVars>>

\* everything but the memory file
notMemVars == <<coreVars, stopVars, dedupVars, sumVars, turnVars, stampVars, rateVars, apiVars, hbVars, subVars>>

\* everything but the agent turns
notTurnVars == <<coreVars, stopVars, dedupVars, sumVars, memVars, stampVars, rateVars, apiVars, hbVars, subVars>>

\* everything but the session's time stamps
notStampVars == <<coreVars, stopVars, dedupVars, sumVars, memVars, turnVars, rateVars, apiVars, hbVars, subVars>>

\* everything but the rate limiter
notRateVars == <<coreVars, stopVars, dedupVars, sumVars, memVars, turnVars, stampVars, apiVars, hbVars, subVars>>

\* everything but the cron API
notApiVars == <<coreVars, stopVars, dedupVars, sumVars, memVars, turnVars, stampVars, rateVars, hbVars, subVars>>

\* everything but the heartbeat service
notHbVars == <<coreVars, stopVars, dedupVars, sumVars, memVars, turnVars, stampVars, rateVars, apiVars, subVars>>

\* everything but the subagent manager
notSubVars == <<coreVars, stopVars, dedupVars, sumVars, memVars, turnVars, stampVars, rateVars, apiVars, hbVars>>

vars == <<busVars, hVars, cronVars, chanVars, restVars>>

(***************************************************************************)
(* Helpers                                                                 *)
(***************************************************************************)
Max(a, b) == IF a >= b THEN a ELSE b

RECURSIVE SeqCount(_, _)
SeqCount(s, x) ==
    IF s = <<>> THEN 0
    ELSE (IF Head(s) = x THEN 1 ELSE 0) + SeqCount(Tail(s), x)

InSeq(s, x) == \E i \in 1..Len(s) : s[i] = x

EmptyMap == [x \in {} |-> 0]

\* EnterpriseMessageQueue._hash_message: md5 of "channel:chat_id:sender_id:content";
\* the digest is kept as the string it is computed from.
HashMessage(msg) ==
    msg.channel \o ":" \o msg.chat_id \o ":" \o msg.sender_id \o ":" \o msg.content

ExpiredInverted(age, window) == age < window

\* _is_duplicate: an entry older than the window has expired
Expired(age, window) == age > window

\* EnterpriseMessageQueue._is_duplicate, the value returned
IsDuplicate(h, hashes, t) ==
    /\ h \in DOMAIN hashes
    /\ ~Expired(t - hashes[h], DedupWindow)

\* EnterpriseMessageQueue._is_duplicate, the table it leaves (an expired entry is deleted)
HashesAfterLookup(h, hashes, t) ==
    IF h \in DOMAIN hashes /\ Expired(t - hashes[h], DedupWindow)
    THEN [k \in DOMAIN hashes \ {h} |-> hashes[k]]
    ELSE hashes

\* get_queue_size / inbound_size
InboundSize == Len(queues[URGENT]) + Len(queues[HIGH]) + Len(queues[NORMAL]) + Len(queues[LOW])

ShouldRetryOffByOne(retry_count, max_retries) == retry_count <= max_retries

\* mark_failed: retry while the incremented count is below the ceiling
ShouldRetry(retry_count, max_retries) == retry_count < max_retries

\* mark_failed: the sub-queue a retried message is put on
LowerPriority(msg) == Max(0, msg.priority - 1)

(***************************************************************************)
(* EnterpriseMessageQueue                                                  *)
(***************************************************************************)
BusInit ==
    /\ queues = [p \in Priorities |-> <<>>]
    /\ dead_letter_queue = <<>>
    /\ message_hashes = EmptyMap
    /\ metrics = [total_received |-> 0, total_processed |-> 0,
                  total_failed |-> 0, total_duplicates |-> 0]
    /\ qmsgs = <<>>
    /\ now = 0
    /\ held = 0
    /\ held_from = LOW
    /\ dq_waiting = FALSE
    /\ dq_results = EmptyMap
    /\ enq_log = <<>>
    /\ last_op = [op |-> "none"]

\* time passes
TickTo(limit) ==
    /\ now < limit
    /\ now' = now + 1
    /\ UNCHANGED <<queues, dead_letter_queue, message_hashes, metrics, qmsgs,
                   held, held_from, dq_waiting, dq_results, enq_log, last_op, hVars, cronVars, chanVars, restVars>>

Tick == TickTo(MaxTime)

BusTick == TickTo(MaxBusTime)

\* enqueue(message, priority), dedup enabled, persistence disabled
EnqueueBody(m, p) ==
    LET h == HashMessage(m) IN
    IF IsDuplicate(h, message_hashes, now)
    THEN /\ metrics' = [metrics EXCEPT !.total_duplicates = @ + 1]
         /\ enq_log' = Append(enq_log, [fp |-> h, t |-> now, ret |-> FALSE])
         /\ last_op' = [op |-> "enqueue", ret |-> FALSE]
         /\ UNCHANGED <<queues, message_hashes, qmsgs>>
    ELSE LET id == Len(qmsgs) + 1
             table == HashesAfterLookup(h, message_hashes, now)
         IN /\ message_hashes' = [k \in DOMAIN table \cup {h} |->
                                     IF k = h THEN now ELSE table[k]]
            /\ qmsgs' = Append(qmsgs, [message |-> m, priority |-> p,
                                       retry_count |-> 0,
                                       max_retries |-> MaxRetries])
            /\ queues' = [queues EXCEPT ![p] = Append(@, id)]
            /\ metrics' = [metrics EXCEPT !.total_received = @ + 1]
            /\ enq_log' = Append(enq_log, [fp |-> h, t |-> now, ret |-> TRUE])
            /\ last_op' = [op |-> "enqueue", ret |-> TRUE]

\* a client of the queue calls enqueue(message, priority)
Enqueue ==
    /\ Len(enq_log) < MaxEnqueue
    /\ \E m \in InboundMessages, p \in Priorities : EnqueueBody(m, p)
    /\ UNCHANGED <<dead_letter_queue, now, held, held_from, dq_waiting, dq_results, hVars, cronVars, chanVars, restVars>>

\* publish_inbound(message): InboundMessage has no priority attribute, so NORMAL
PublishInbound ==
    /\ Len(enq_log) < MaxPublish
    /\ \E m \in InboundMessages : EnqueueBody(m, NORMAL)
    /\ UNCHANGED <<dead_letter_queue, now, held, held_from, dq_waiting, dq_results, hVars, cronVars, chanVars, restVars>>

\* the first non-empty sub-queue in scan order (0: all are empty)
RECURSIVE FirstNonEmpty(_)
FirstNonEmpty(i) ==
    IF i > Len(ScanOrder) THEN 0
    ELSE IF queues[ScanOrder[i]] # <<>> THEN i
    ELSE FirstNonEmpty(i + 1)

\* dequeue(), a sub-queue is non-empty: the head of the first one in scan order
TakeImmediate(id, p) ==
    /\ ~dq_waiting
    /\ FirstNonEmpty(1) # 0
    /\ p = ScanOrder[FirstNonEmpty(1)]
    /\ id = Head(queues[p])
    /\ queues' = [queues EXCEPT ![p] = Tail(@)]
    /\ last_op' = [op |-> "dequeue", from |-> p]
    /\ UNCHANGED <<dq_waiting, dq_results>>

\* dequeue(), all sub-queues empty: one queue.get() task per sub-queue, then asyncio.wait
Suspend ==
    /\ ~dq_waiting
    /\ FirstNonEmpty(1) = 0
    /\ dq_waiting' = TRUE
    /\ dq_results' = EmptyMap
    /\ last_op' = [op |-> "suspend"]
    /\ UNCHANGED queues

\* done.pop(): one element of the set of completed tasks, in no defined order
DonePop(done) == done

\* dequeue() resumes from asyncio.wait: the pending tasks are cancelled (their
\* sub-queues keep their items) and done.pop() picks one completed task; what
\* the other completed tasks took off their sub-queues is dropped.
TakeWaited(id, p) ==
    /\ dq_waiting
    /\ p \in DonePop(DOMAIN dq_results)
    /\ id = dq_results[p]
    /\ last_op' = [op |-> "dequeue_waited", from |-> p, done |-> DOMAIN dq_results]
    /\ dq_waiting' = FALSE
    /\ dq_results' = EmptyMap
    /\ UNCHANGED queues

\* a queue.get() task of the suspended dequeue() is woken by a put and takes the head
GetterRun ==
    /\ dq_waiting
    /\ \E p \in Priorities :
         /\ p \notin DOMAIN dq_results
         /\ queues[p] # <<>>
         /\ dq_results' = [k \in DOMAIN dq_results \cup {p} |->
                              IF k = p THEN Head(queues[p]) ELSE dq_results[k]]
         /\ queues' = [queues EXCEPT ![p] = Tail(@)]
    /\ UNCHANGED <<dead_letter_queue, message_hashes, metrics, qmsgs, now,
                   held, held_from, dq_waiting, enq_log, last_op, hVars, cronVars, chanVars, restVars>>

\* the consumer calls dequeue() and gets a message at once
DequeueImmediate ==
    /\ held = 0
    /\ \E id \in 1..Len(qmsgs), p \in Priorities :
         /\ TakeImmediate(id, p)
         /\ held' = id
         /\ held_from' = p
    /\ UNCHANGED <<dead_letter_queue, message_hashes, metrics, qmsgs, now, enq_log, hVars, cronVars, chanVars, restVars>>

\* the consumer calls dequeue() and is suspended
DequeueSuspend ==
    /\ held = 0
    /\ Suspend
    /\ UNCHANGED <<dead_letter_queue, message_hashes, metrics, qmsgs, now,
                   held, held_from, enq_log, hVars, cronVars, chanVars, restVars>>

\* the consumer's dequeue() returns after the wait
DequeueResume ==
    /\ \E id \in 1..Len(qmsgs), p \in Priorities :
         /\ TakeWaited(id, p)
         /\ held' = id
         /\ held_from' = p
    /\ UNCHANGED <<dead_letter_queue, message_hashes, metrics, qmsgs, now, enq_log, hVars, cronVars, chanVars, restVars>>

\* mark_success(msg), persistence disabled
MarkSuccess ==
    /\ held # 0
    /\ metrics' = [metrics EXCEPT !.total_processed = @ + 1]
    /\ held' = 0
    /\ last_op' = [op |-> "mark_success", id |-> held]
    /\ UNCHANGED <<queues, dead_letter_queue, message_hashes, qmsgs, now, held_from,
                   dq_waiting, dq_results, enq_log, hVars, cronVars, chanVars, restVars>>

\* mark_failed(msg, error)
MarkFailedBody(id, error) ==
    LET msg == [qmsgs[id] EXCEPT !.retry_count = @ + 1] IN
    /\ qmsgs' = [qmsgs EXCEPT ![id] = msg]
    /\ IF ShouldRetry(msg.retry_count, msg.max_retries)
       THEN /\ queues' = [queues EXCEPT ![LowerPriority(msg)] = Append(@, id)]
            /\ last_op' = [op |-> "retry", id |-> id, from |-> held_from,
                           to |-> LowerPriority(msg)]
            /\ UNCHANGED <<dead_letter_queue, metrics>>
       ELSE /\ dead_letter_queue' = Append(dead_letter_queue, <<id, error>>)
            /\ metrics' = [metrics EXCEPT !.total_failed = @ + 1]
            /\ last_op' = [op |-> "dead_letter", id |-> id]
            /\ UNCHANGED queues

\* the consumer's handling of the message it holds failed
MarkFailed ==
    /\ held # 0
    /\ \E error \in Errors : MarkFailedBody(held, error)
    /\ held' = 0
    /\ UNCHANGED <<message_hashes, now, held_from, dq_waiting, dq_results, enq_log, hVars, cronVars, chanVars, restVars>>

(***************************************************************************)
(* ChannelMessageHandler                                                   *)
(***************************************************************************)
HandlerInit ==
    /\ h_pc = [i \in HIds |-> "none"]
    /\ h_session = [i \in HIds |-> 0]
    /\ sessions = <<>>
    /\ active_tasks = EmptyMap
    /\ saved = <<>>
    /\ outbound = <<>>

\* session name of _get_or_create_session
SessionName(msg) == msg.channel \o ":" \o msg.chat_id

\* the newest session with this name (0: none): order_by created_at desc, limit 1
RECURSIVE LatestSession(_, _)
LatestSession(name, i) ==
    IF i = 0 THEN 0
    ELSE IF sessions[i] = name THEN i
    ELSE LatestSession(name, i - 1)

\* start_processing: asyncio.create_task(self.handle_message(msg))
SpawnHandler(id) ==
    /\ h_pc' = [h_pc EXCEPT ![id] = "start"]
    /\ UNCHANGED <<h_session, sessions, active_tasks, saved, outbound, cronVars, chanVars, restVars>>

\* start_processing: consume_inbound() returns at once
ConsumeImmediate ==
    /\ \E id \in 1..Len(qmsgs), p \in Priorities :
         /\ TakeImmediate(id, p)
         /\ SpawnHandler(id)
    /\ UNCHANGED <<dead_letter_queue, message_hashes, metrics, qmsgs, now,
                   held, held_from, enq_log>>

\* start_processing: consume_inbound() is suspended in dequeue()
ConsumeSuspend ==
    /\ Suspend
    /\ UNCHANGED <<dead_letter_queue, message_hashes, metrics, qmsgs, now,
                   held, held_from, enq_log, hVars, cronVars, chanVars, restVars>>

\* start_processing: consume_inbound() returns after the wait
ConsumeResume ==
    /\ \E id \in 1..Len(qmsgs), p \in Priorities :
         /\ TakeWaited(id, p)
         /\ SpawnHandler(id)
    /\ UNCHANGED <<dead_letter_queue, message_hashes, metrics, qmsgs, now,
                   held, held_from, enq_log>>

\* handle_message, finally: the session's entry of _active_tasks is deleted,
\* whichever task put it there
Finally(i, table) ==
    IF h_session[i] # 0 /\ h_session[i] \in DOMAIN table
    THEN [s \in DOMAIN table \ {h_session[i]} |-> table[s]]
    ELSE table

\* handle_message, except Exception: a friendly error is sent as the reply, and
\* the task ends; the QueuedMessage is out of reach (consume_inbound returned
\* only its .message)
HandlerRaise(i) ==
    /\ outbound' = Append(outbound, <<i, "error">>)
    /\ h_pc' = [h_pc EXCEPT ![i] = "failed"]
    /\ active_tasks' = Finally(i, active_tasks)

\* handle_message up to the session: _get_or_create_session finds the session
\* or creates it, then self._active_tasks[session_id] = cancel_token
ResolveSession ==
    /\ \E i \in HIds :
         /\ h_pc[i] = "start"
         /\ LET name == SessionName(qmsgs[i].message)
                found == LatestSession(name, Len(sessions))
                sid == IF found # 0 THEN found ELSE Len(sessions) + 1
            IN /\ sessions' = IF found # 0 THEN sessions ELSE Append(sessions, name)
               /\ h_session' = [h_session EXCEPT ![i] = sid]
               /\ active_tasks' = [s \in DOMAIN active_tasks \cup {sid} |->
                                      IF s = sid THEN i ELSE active_tasks[s]]
               /\ h_pc' = [h_pc EXCEPT ![i] = "save_user"]
    /\ UNCHANGED <<saved, outbound, busVars, cronVars, chanVars, restVars>>

\* _get_or_create_session raises (the database)
ResolveSessionRaises ==
    /\ \E i \in HIds :
         /\ h_pc[i] = "start"
         /\ HandlerRaise(i)
    /\ UNCHANGED <<h_session, sessions, saved, busVars, cronVars, chanVars, restVars>>

\* _save_message(session_id, "user", msg.content), then the history is read and
\* agent_loop.process_message starts
SaveUserMessage ==
    /\ \E i \in HIds :
         /\ h_pc[i] = "save_user"
         /\ saved' = Append(saved, <<h_session[i], "user", i>>)
         /\ h_pc' = [h_pc EXCEPT ![i] = "turn"]
    /\ UNCHANGED <<h_session, sessions, active_tasks, outbound, busVars, cronVars, chanVars, restVars>>

\* _save_message or _get_session_history raises
SaveUserMessageRaises ==
    /\ \E i \in HIds :
         /\ h_pc[i] = "save_user"
         /\ HandlerRaise(i)
    /\ UNCHANGED <<h_session, sessions, saved, busVars, cronVars, chanVars, restVars>>

\* _process_with_agent returns a response (an agent error comes back as a
\* friendly text): the response is saved and published, the task ends
FinishTurn ==
    /\ \E i \in HIds :
         /\ h_pc[i] = "turn"
         /\ saved' = Append(saved, <<h_session[i], "assistant", i>>)
         /\ outbound' = Append(outbound, <<i, "reply">>)
         /\ h_pc' = [h_pc EXCEPT ![i] = "done"]
         /\ active_tasks' = Finally(i, active_tasks)
    /\ UNCHANGED <<h_session, sessions, busVars, cronVars, chanVars, restVars>>

\* saving the response raises
FinishTurnRaises ==
    /\ \E i \in HIds :
         /\ h_pc[i] = "turn"
         /\ HandlerRaise(i)
    /\ UNCHANGED <<h_session, sessions, saved, busVars, cronVars, chanVars, restVars>>

(***************************************************************************)
(* CronService, CronScheduler and the manual-run endpoint                  *)
(***************************************************************************)
JobIds == 1..NumJobs

TimerIds == 1..MaxTimers

\* DEFAULT_MAX_CONCURRENT
MaxConcurrent == 3

\* the cron expression of job j: "* * * * *", every minute
Schedule(j) == 1

\* the first instant of the schedule at or after base
CalculateNextRunAtOrAfter(schedule, base) ==
    ((base + schedule - 1) \div schedule) * schedule

\* CronService.calculate_next_run: the first instant of the schedule strictly after base
CalculateNextRun(schedule, base) == ((base \div schedule) + 1) * schedule

\* the builtin heartbeat job (message "__heartbeat__") is job 1
IsHeartbeat(j) == j = 1

\* a row of cron_jobs as add_job creates it (next_run 0 and last_run -1: None);
\* exists is FALSE for an id no job has yet
NewRow(e, next) ==
    [exists |-> TRUE, enabled |-> e, next_run |-> next, last_status |-> "none",
     last_run |-> -1, last_error |-> FALSE, run_count |-> 0, error_count |-> 0]

NoRow == [NewRow(FALSE, 0) EXCEPT !.exists = FALSE]

NoTask == [pc |-> "none", cancel_by |-> "none", loaded |-> NoRow, started_at |-> 0]

NoTimer == [pc |-> "free", cancel |-> FALSE, wake |-> 0]

\* the scheduler after construction, over a jobs table that holds the jobs
\* in present, each added enabled at time 0
CronInitWith(present) ==
    /\ db = [j \in JobIds |-> IF j \in present
                               THEN NewRow(TRUE, CalculateNextRun(Schedule(j), 0))
                               ELSE NoRow]
    /\ running = FALSE
    /\ timer_task = 0
    /\ timers = [t \in TimerIds |-> NoTimer]
    /\ jt = [t \in TimerIds |-> [j \in JobIds |-> NoTask]]
    /\ active_jobs = {}
    /\ semaphore = MaxConcurrent
    /\ manual = [j \in JobIds |-> 0]
    /\ stop_pc = "idle"
    /\ grace_elapsed = FALSE
    /\ updates = 0

CronInit == CronInitWith(JobIds)

\* one cron minute passes
CronTick ==
    /\ now < MaxCronTime
    /\ now' = now + 1
    /\ UNCHANGED <<queues, dead_letter_queue, message_hashes, metrics, qmsgs,
                   held, held_from, dq_waiting, dq_results, enq_log, last_op,
                   hVars, cronVars, chanVars, restVars>>

\* one cron minute passes (SpecSched)
SchedTick ==
    /\ now < MaxSchedTime
    /\ now' = now + 1
    /\ UNCHANGED <<queues, dead_letter_queue, message_hashes, metrics, qmsgs,
                   held, held_from, dq_waiting, dq_results, enq_log, last_op,
                   hVars, cronVars, chanVars, restVars>>

\* the job tasks a timer task gathers that have not ended
Children(tasks, t) == {j \in JobIds : tasks[t][j].pc # "none"}

\* a job has an _execute_job_safe task past the semaphore
JobTaskRunning(j) == \E t \in TimerIds : jt[t][j].pc \in {"load", "exec"}

\* CronExecutor.execute is in progress for job j, the number of invocations
Executing(j) == Cardinality({t \in TimerIds : jt[t][j].pc = "exec"}) + manual[j]

\* Task.cancel() of a timer task: the request is recorded unless the task is done
CancelTimerTask(ts, t) ==
    IF t # 0 /\ ts[t].pc # "free" THEN [ts EXCEPT ![t].cancel = TRUE] ELSE ts

\* Task.cancel() of a timer task that awaits asyncio.gather: gather's cancel()
\* cancels every child that has not ended
CancelChildren(ts, tasks, t, cause) ==
    IF t # 0 /\ ts[t].pc = "gather"
    THEN [tasks EXCEPT ![t] = [j \in JobIds |->
             IF tasks[t][j].pc # "none" /\ tasks[t][j].cancel_by = "none"
             THEN [tasks[t][j] EXCEPT !.cancel_by = cause]
             ELSE tasks[t][j]]]
    ELSE tasks

FreeTimers(ts) == {t \in TimerIds : ts[t].pc = "free" /\ Children(jt, t) = {}}

\* _arm_timer: the armed timer task, when not done, is cancelled, and a new
\* schedule_next task becomes the armed one
ArmTimer(ts, tasks) ==
    LET ts1 == CancelTimerTask(ts, timer_task)
        new == CHOOSE t \in FreeTimers(ts1) : \A u \in FreeTimers(ts1) : t <= u
    IN /\ FreeTimers(ts1) # {}
       /\ timers' = [ts1 EXCEPT ![new] = [pc |-> "start", cancel |-> FALSE, wake |-> 0]]
       /\ jt' = CancelChildren(ts, tasks, timer_task, "rearm")
       /\ timer_task' = new

\* _recompute_next_runs: every enabled job gets the next instant after now
Recompute(rows) ==
    [j \in JobIds |-> IF rows[j].enabled
                      THEN [rows[j] EXCEPT !.next_run = CalculateNextRun(Schedule(j), now)]
                      ELSE rows[j]]

\* CronScheduler.start
Start ==
    /\ ~running /\ stop_pc = "idle" /\ timer_task = 0
    /\ running' = TRUE
    /\ db' = Recompute(db)
    /\ ArmTimer(timers, jt)
    /\ UNCHANGED <<active_jobs, semaphore, manual, stop_pc, grace_elapsed, updates,
                   busVars, hVars, chanVars, restVars>>

\* CronScheduler.trigger_reschedule (the settings endpoint calls it)
TriggerReschedule ==
    /\ running
    /\ db' = Recompute(db)
    /\ ArmTimer(timers, jt)
    /\ UNCHANGED <<running, active_jobs, semaphore, manual, stop_pc, grace_elapsed,
                   updates, busVars, hVars, chanVars, restVars>>

\* _get_next_wake_time: the earliest next_run of the enabled jobs (0: None)
NextWakeTime ==
    LET times == {db[j].next_run : j \in {k \in JobIds : db[k].enabled /\ db[k].next_run # 0}}
    IN IF times = {} THEN 0 ELSE CHOOSE x \in times : \A y \in times : x <= y

\* schedule_next up to its sleep
TimerCompute ==
    /\ \E t \in TimerIds :
         /\ timers[t].pc = "start" /\ ~timers[t].cancel
         /\ timers' = [timers EXCEPT ![t] =
                IF NextWakeTime = 0 \/ ~running
                THEN [pc |-> "idle", cancel |-> FALSE, wake |-> 0]
                ELSE [pc |-> "sleep", cancel |-> FALSE, wake |-> NextWakeTime]]
    /\ UNCHANGED <<db, running, timer_task, jt, active_jobs, semaphore, manual,
                   stop_pc, grace_elapsed, updates, busVars, hVars, chanVars, restVars>>

\* schedule_next after the 60 s sleep of the no-jobs branch
TimerIdleWake ==
    /\ \E t \in TimerIds :
         /\ timers[t].pc = "idle" /\ ~timers[t].cancel
         /\ IF running
            THEN ArmTimer([timers EXCEPT ![t] = NoTimer], jt)
            ELSE /\ timers' = [timers EXCEPT ![t] = NoTimer]
                 /\ UNCHANGED <<jt, timer_task>>
    /\ UNCHANGED <<db, running, active_jobs, semaphore, manual, stop_pc, grace_elapsed,
                   updates, busVars, hVars, chanVars, restVars>>

\* CronService.get_due_jobs
DueJobs == {j \in JobIds : db[j].enabled /\ db[j].next_run # 0 /\ db[j].next_run <= now}

\* schedule_next woken by its sleep: _on_timer creates one _execute_job_safe
\* task per due job that is not in _active_jobs and gathers them; with no such
\* job its finally re-arms the timer
TimerWake ==
    /\ \E t \in TimerIds :
         /\ timers[t].pc = "sleep" /\ ~timers[t].cancel
         /\ timers[t].wake <= now
         /\ LET pending == DueJobs \ active_jobs IN
            IF ~running
            THEN /\ timers' = [timers EXCEPT ![t] = NoTimer]
                 /\ UNCHANGED <<jt, timer_task>>
            ELSE IF pending = {}
            THEN ArmTimer([timers EXCEPT ![t] = NoTimer], jt)
            ELSE /\ timers' = [timers EXCEPT ![t].pc = "gather"]
                 /\ jt' = [jt EXCEPT ![t] = [j \in JobIds |->
                              IF j \in pending
                              THEN [NoTask EXCEPT !.pc = "sem"]
                              ELSE NoTask]]
                 /\ UNCHANGED timer_task
    /\ UNCHANGED <<db, running, active_jobs, semaphore, manual, stop_pc, grace_elapsed,
                   updates, busVars, hVars, chanVars, restVars>>

\* a timer task that re-arms only when the batch raised nothing
RearmOnlyOnSuccess(isRunning) == FALSE

\* _on_timer, finally: the timer is armed again while the scheduler runs,
\* whatever the try block raised
RearmInFinally(isRunning) == isRunning

\* schedule_next woken by its sleep: get_due_jobs (or the session) raises in
\* _on_timer; except Exception logs it and finally re-arms the timer
TimerQueryFails ==
    /\ \E t \in TimerIds :
         /\ timers[t].pc = "sleep" /\ ~timers[t].cancel
         /\ timers[t].wake <= now
         /\ running
         /\ IF RearmInFinally(running)
            THEN ArmTimer([timers EXCEPT ![t] = NoTimer], jt)
            ELSE /\ timers' = [timers EXCEPT ![t] = NoTimer]
                 /\ UNCHANGED <<jt, timer_task>>
    /\ UNCHANGED <<db, running, active_jobs, semaphore, manual, stop_pc, grace_elapsed,
                   updates, busVars, hVars, chanVars, restVars>>

\* schedule_next: _get_next_wake_time fails on the database and returns None;
\* the timer task takes the 60 s sleep of the no-jobs branch
TimerWakeTimeFails ==
    /\ \E t \in TimerIds :
         /\ timers[t].pc = "start" /\ ~timers[t].cancel
         /\ timers' = [timers EXCEPT ![t] = [pc |-> "idle", cancel |-> FALSE, wake |-> 0]]
    /\ UNCHANGED <<db, running, timer_task, jt, active_jobs, semaphore, manual,
                   stop_pc, grace_elapsed, updates, busVars, hVars, chanVars, restVars>>

\* _on_timer after gather: every child has ended; finally re-arms the timer
\* while the scheduler runs (also when gather was cancelled)
TimerGatherDone ==
    /\ \E t \in TimerIds :
         /\ timers[t].pc = "gather"
         /\ Children(jt, t) = {}
         /\ IF running
            THEN ArmTimer([timers EXCEPT ![t] = NoTimer], jt)
            ELSE /\ timers' = [timers EXCEPT ![t] = NoTimer]
                 /\ UNCHANGED <<jt, timer_task>>
    /\ UNCHANGED <<db, running, active_jobs, semaphore, manual, stop_pc, grace_elapsed,
                   updates, busVars, hVars, chanVars, restVars>>

\* schedule_next, except asyncio.CancelledError, outside _on_timer
TimerCancelled ==
    /\ \E t \in TimerIds :
         /\ timers[t].pc \in {"start", "sleep", "idle"} /\ timers[t].cancel
         /\ timers' = [timers EXCEPT ![t] = NoTimer]
    /\ UNCHANGED <<db, running, timer_task, jt, active_jobs, semaphore, manual,
                   stop_pc, grace_elapsed, updates, busVars, hVars, chanVars, restVars>>

\* _execute_job_safe: the semaphore is acquired and the job id added to _active_jobs
JobAcquire ==
    /\ \E t \in TimerIds, j \in JobIds :
         /\ jt[t][j].pc = "sem" /\ jt[t][j].cancel_by = "none"
         /\ semaphore > 0
         /\ semaphore' = semaphore - 1
         /\ active_jobs' = active_jobs \cup {j}
         /\ jt' = [jt EXCEPT ![t][j].pc = "load"]
    /\ UNCHANGED <<db, running, timer_task, timers, manual, stop_pc, grace_elapsed,
                   updates, busVars, hVars, chanVars, restVars>>

\* _execute_job_safe, finally and the release of the semaphore
EndJobTask(t, j) ==
    /\ jt' = [jt EXCEPT ![t][j] = NoTask]
    /\ active_jobs' = active_jobs \ {j}
    /\ semaphore' = semaphore + 1

\* _execute_job_safe: the job is loaded afresh in a session of the task; an
\* enabled job starts _execute_job under wait_for, which calls on_execute
JobLoad ==
    /\ \E t \in TimerIds, j \in JobIds :
         /\ jt[t][j].pc = "load" /\ jt[t][j].cancel_by = "none"
         /\ IF db[j].exists /\ db[j].enabled
            THEN /\ jt' = [jt EXCEPT ![t][j] = [pc |-> "exec", cancel_by |-> "none",
                                                loaded |-> db[j],
                                                started_at |-> now]]
                 /\ UNCHANGED <<active_jobs, semaphore>>
            ELSE EndJobTask(t, j)
    /\ UNCHANGED <<db, running, timer_task, timers, manual, stop_pc, grace_elapsed,
                   updates, busVars, hVars, chanVars, restVars>>

\* commit of an ORM object: the UPDATE writes the columns whose value differs
\* from the loaded one
Flush(row, loaded, obj) ==
    [c \in DOMAIN row |-> IF obj[c] # loaded[c] THEN obj[c] ELSE row[c]]

\* _execute_job: the attributes set on the object loaded before the execution,
\* in the try branch (status "ok") and in the except branch (status "error")
ObjAfterExecute(job, j, started_at, status) ==
    [job EXCEPT !.last_run = started_at,
                !.last_status = status,
                !.last_error = (status = "error"),
                !.run_count = IF status = "ok" THEN @ + 1 ELSE @,
                !.error_count = IF status = "error" THEN @ + 1 ELSE @,
                !.next_run = IF job.enabled
                             THEN CalculateNextRun(Schedule(j), started_at)
                             ELSE @]

\* _execute_job after on_execute: the row after the commit
RowAfterExecute(row, task, j, status) ==
    Flush(row, task.loaded, ObjAfterExecute(task.loaded, j, task.started_at, status))

\* on_execute returns
JobComplete ==
    /\ \E t \in TimerIds, j \in JobIds :
         /\ jt[t][j].pc = "exec" /\ jt[t][j].cancel_by = "none"
         /\ db' = [db EXCEPT ![j] = RowAfterExecute(@, jt[t][j], j, "ok")]
         /\ EndJobTask(t, j)
    /\ UNCHANGED <<running, timer_task, timers, manual, stop_pc, grace_elapsed,
                   updates, busVars, hVars, chanVars, restVars>>

\* _execute_heartbeat: heartbeat_service.execute (or the saving of the
\* greeting) raises; the except branch returns "" and on_execute returns
JobHeartbeatFails ==
    /\ \E t \in TimerIds, j \in JobIds :
         /\ jt[t][j].pc = "exec" /\ jt[t][j].cancel_by = "none"
         /\ IsHeartbeat(j)
         /\ db' = [db EXCEPT ![j] = RowAfterExecute(@, jt[t][j], j, "ok")]
         /\ EndJobTask(t, j)
    /\ UNCHANGED <<running, timer_task, timers, manual, stop_pc, grace_elapsed,
                   updates, busVars, hVars, chanVars, restVars>>

\* on_execute raises (CronExecutor.execute re-raises what the agent turn raised)
JobFail ==
    /\ \E t \in TimerIds, j \in JobIds :
         /\ jt[t][j].pc = "exec" /\ jt[t][j].cancel_by = "none"
         /\ ~IsHeartbeat(j)
         /\ db' = [db EXCEPT ![j] = RowAfterExecute(@, jt[t][j], j, "error")]
         /\ EndJobTask(t, j)
    /\ UNCHANGED <<running, timer_task, timers, manual, stop_pc, grace_elapsed,
                   updates, busVars, hVars, chanVars, restVars>>

\* _execute_job: _safe_commit raises (the database stays locked, or fails) in
\* the try branch and again in the except branch; _execute_job_safe logs the
\* error and nothing is written
JobCommitFails ==
    /\ \E t \in TimerIds, j \in JobIds :
         /\ jt[t][j].pc = "exec" /\ jt[t][j].cancel_by = "none"
         /\ EndJobTask(t, j)
    /\ UNCHANGED <<db, running, timer_task, timers, manual, stop_pc, grace_elapsed,
                   updates, busVars, hVars, chanVars, restVars>>

\* the status update of a job loaded afresh after its execution (the timeout
\* branch of _execute_job_safe, _run_in_background of the manual run)
RowAfterFresh(row, j, status) ==
    [row EXCEPT !.last_run = now,
                !.last_status = status,
                !.last_error = (status = "error"),
                !.run_count = @ + 1,
                !.error_count = IF status = "error" THEN @ + 1 ELSE @,
                !.next_run = IF row.enabled
                             THEN CalculateNextRun(Schedule(j), now)
                             ELSE @]

\* wait_for times out after job_timeout
JobTimeout ==
    /\ \E t \in TimerIds, j \in JobIds :
         /\ jt[t][j].pc = "exec" /\ jt[t][j].cancel_by = "none"
         /\ db' = [db EXCEPT ![j] = RowAfterFresh(@, j, "error")]
         /\ EndJobTask(t, j)
    /\ UNCHANGED <<running, timer_task, timers, manual, stop_pc, grace_elapsed,
                   updates, busVars, hVars, chanVars, restVars>>

\* a cancelled job task ends with CancelledError: nothing is recorded; a task
\* cancelled before it got the semaphore never ran
JobCancelled ==
    /\ \E t \in TimerIds, j \in JobIds :
         /\ jt[t][j].pc # "none" /\ jt[t][j].cancel_by # "none"
         /\ IF jt[t][j].pc = "sem"
            THEN /\ jt' = [jt EXCEPT ![t][j] = NoTask]
                 /\ UNCHANGED <<active_jobs, semaphore>>
            ELSE EndJobTask(t, j)
    /\ UNCHANGED <<db, running, timer_task, timers, manual, stop_pc, grace_elapsed,
                   updates, busVars, hVars, chanVars, restVars>>

\* CronService.update_job(job_id, enabled=e) through PUT /api/cron/jobs/{id}
\* (CronService(db) has no scheduler: no reschedule)
UpdateJob ==
    /\ updates < MaxUpdates
    /\ updates' = updates + 1
    /\ \E j \in JobIds, e \in BOOLEAN :
         /\ db[j].exists
         /\ db' = [db EXCEPT ![j].enabled = e,
                             ![j].next_run = IF e THEN CalculateNextRun(Schedule(j), now) ELSE 0]
    /\ UNCHANGED <<running, timer_task, timers, jt, active_jobs, semaphore, manual,
                   stop_pc, grace_elapsed, busVars, hVars, chanVars, restVars>>

\* CronService.add_job through POST /api/cron/jobs (CronService(db) has no
\* scheduler: no reschedule); the new job gets an id no job has had
AddJob ==
    /\ \E j \in JobIds, e \in BOOLEAN :
         /\ ~db[j].exists
         /\ db' = [db EXCEPT ![j] = NewRow(e, IF e THEN CalculateNextRun(Schedule(j), now)
                                                 ELSE 0)]
    /\ UNCHANGED <<running, timer_task, timers, jt, active_jobs, semaphore, manual,
                   stop_pc, grace_elapsed, updates, busVars, hVars, chanVars, restVars>>

\* trigger_cron_job: 404 for an unknown job, 409 when the scheduler has the job
\* in _active_jobs, else executor.execute starts in a background task
ManualTrigger ==
    /\ updates < MaxUpdates
    /\ updates' = updates + 1
    /\ \E j \in JobIds :
         /\ db[j].exists
         /\ j \notin active_jobs
         /\ manual[j] < MaxManual
         /\ manual' = [manual EXCEPT ![j] = @ + 1]
    /\ UNCHANGED <<db, running, timer_task, timers, jt, active_jobs, semaphore,
                   stop_pc, grace_elapsed, busVars, hVars, chanVars, restVars>>

\* _run_in_background: executor.execute returned or raised
ManualFinish ==
    /\ \E j \in JobIds, status \in {"ok", "error"} :
         /\ manual[j] > 0
         /\ status = "error" => ~IsHeartbeat(j)
         /\ manual' = [manual EXCEPT ![j] = @ - 1]
         /\ db' = [db EXCEPT ![j] = RowAfterFresh(@, j, status)]
    /\ UNCHANGED <<running, timer_task, timers, jt, active_jobs, semaphore,
                   stop_pc, grace_elapsed, updates, busVars, hVars, chanVars, restVars>>

\* CronScheduler.stop: _running is cleared and the timer task cancelled
StopBegin ==
    /\ running /\ stop_pc = "idle"
    /\ running' = FALSE
    /\ timers' = CancelTimerTask(timers, timer_task)
    /\ jt' = CancelChildren(timers, jt, timer_task, "stop")
    /\ stop_pc' = "await_timer"
    /\ UNCHANGED <<db, timer_task, active_jobs, semaphore, manual, grace_elapsed,
                   updates, busVars, hVars, chanVars, restVars>>

\* the job tasks that have not ended (CronScheduler._active_tasks)
ActiveTasks == {tj \in TimerIds \X JobIds : jt[tj[1]][tj[2]].pc # "none"}

\* stop: the timer task has ended; the job tasks still in _active_tasks are
\* waited for, for 30 s at most
StopTimerJoined ==
    /\ stop_pc = "await_timer"
    /\ timers[timer_task].pc = "free"
    /\ timer_task' = 0
    /\ stop_pc' = IF ActiveTasks # {} THEN "wait" ELSE "done"
    /\ UNCHANGED <<db, running, timers, jt, active_jobs, semaphore, manual,
                   grace_elapsed, updates, busVars, hVars, chanVars, restVars>>

\* stop: every waited task ended within the 30 s
StopWaitDone ==
    /\ stop_pc \in {"wait", "force"}
    /\ ActiveTasks = {}
    /\ stop_pc' = "done"
    /\ UNCHANGED <<db, running, timer_task, timers, jt, active_jobs, semaphore, manual,
                   grace_elapsed, updates, busVars, hVars, chanVars, restVars>>

\* the 30 s of stop's wait pass
GraceElapses ==
    /\ stop_pc = "wait"
    /\ ~grace_elapsed
    /\ grace_elapsed' = TRUE
    /\ UNCHANGED <<db, running, timer_task, timers, jt, active_jobs, semaphore, manual,
                   stop_pc, updates, busVars, hVars, chanVars, restVars>>

\* stop: the tasks still pending after the 30 s are cancelled and gathered
StopForceCancel ==
    /\ stop_pc = "wait"
    /\ grace_elapsed
    /\ ActiveTasks # {}
    /\ jt' = [t \in TimerIds |-> [j \in JobIds |->
                 IF jt[t][j].pc # "none" /\ jt[t][j].cancel_by = "none"
                 THEN [jt[t][j] EXCEPT !.cancel_by = "stop"]
                 ELSE jt[t][j]]]
    /\ stop_pc' = "force"
    /\ UNCHANGED <<db, running, timer_task, timers, active_jobs, semaphore, manual,
                   grace_elapsed, updates, busVars, hVars, chanVars, restVars>>

(***************************************************************************)
(* Properties of the message bus                                           *)
(***************************************************************************)
InQueues(id) == \E p \in Priorities : InSeq(queues[p], id)

DeadLetterCount(id) ==
    Cardinality({k \in 1..Len(dead_letter_queue) : dead_letter_queue[k][1] = id})

Returned(ret) == {k \in 1..Len(enq_log) : enq_log[k].ret = ret}

\* C3: a message that has failed with its retry count at the ceiling is in the
\* dead-letter queue exactly once and in no inbound sub-queue; after three
\* failures of a single NORMAL message the inbound depth is 0 and the DLQ
\* depth is 1.
C3_DeadLetterOnce ==
    /\ \A id \in 1..Len(qmsgs) :
         qmsgs[id].retry_count >= qmsgs[id].max_retries =>
            /\ DeadLetterCount(id) = 1
            /\ ~InQueues(id)
            /\ held # id
            /\ \A p \in DOMAIN dq_results : dq_results[p] # id
    /\ (Len(qmsgs) = 1 /\ qmsgs[1].priority = NORMAL /\ qmsgs[1].retry_count = 3) =>
            /\ InboundSize = 0
            /\ Len(dead_letter_queue) = 1

C3_Witness ==
    /\ Len(qmsgs) = 1
    /\ qmsgs[1].priority = NORMAL
    /\ qmsgs[1].retry_count = 3
    /\ last_op.op = "dead_letter"
    /\ Len(dead_letter_queue) = 1

\* C4: with dedup enabled, a message whose fingerprint was accepted less than
\* DedupWindow seconds earlier is rejected: enqueue returns false, nothing is
\* put on a sub-queue, and the duplicate counter goes up by exactly one per
\* rejected message.
C4_DedupWithinWindow ==
    /\ \A i, j \in 1..Len(enq_log) :
         ( /\ i < j
           /\ enq_log[i].fp = enq_log[j].fp
           /\ enq_log[i].ret
           /\ enq_log[j].t - enq_log[i].t < DedupWindow ) => ~enq_log[j].ret
    /\ metrics.total_duplicates = Cardinality(Returned(FALSE))
    /\ Len(qmsgs) = Cardinality(Returned(TRUE))
    /\ metrics.total_received = Cardinality(Returned(TRUE))
    /\ \A p \in Priorities : \A k \in 1..Len(queues[p]) : queues[p][k] \in 1..Len(qmsgs)

C4_Witness ==
    /\ Len(enq_log) = 2
    /\ enq_log[1].fp = enq_log[2].fp
    /\ enq_log[1].ret
    /\ enq_log[2].t = enq_log[1].t + 1
    /\ last_op = [op |-> "enqueue", ret |-> FALSE]
    /\ metrics.total_duplicates = 1
    /\ Len(qmsgs) = 1

\* C7: a dequeue that was suspended on empty sub-queues and finds messages
\* arrived on several of them returns the one from the highest-priority
\* sub-queue among those.
C7_WaitedDequeueTakesHighest ==
    last_op.op = "dequeue_waited" => \A p \in last_op.done : p <= last_op.from

\* the non-empty sub-queue of the highest priority
HighestNonEmpty ==
    CHOOSE p \in Priorities :
        /\ queues[p] # <<>>
        /\ \A q \in Priorities : queues[q] # <<>> => q <= p

\* C33: a dequeue called while a sub-queue is non-empty returns at once, with
\* the oldest message of the non-empty sub-queue of the highest priority.
C33_ImmediateDequeueTakesHighestOldest ==
    [][((DequeueImmediate \/ DequeueSuspend) /\ \E p \in Priorities : queues[p] # <<>>) =>
          (/\ held' = Head(queues[HighestNonEmpty])
           /\ held_from' = HighestNonEmpty
           /\ ~dq_waiting')]_vars

C33_Witness ==
    /\ last_op = [op |-> "dequeue", from |-> HIGH]
    /\ held # 0
    /\ held_from = HIGH
    /\ queues[NORMAL] # <<>>
    /\ Head(queues[NORMAL]) < held

\* C35: no accepted message is taken off a sub-queue without being returned
\* to a caller of dequeue: when a suspended dequeue returns, every message its
\* getters took off the sub-queues is the one it returns.
C35_NothingTakenAndDropped ==
    [][DequeueResume => \A p \in DOMAIN dq_results : dq_results[p] = held']_vars

\* C8: every retry puts the message on the sub-queue one priority step below
\* the sub-queue it was last taken from, or on LOW when it was taken from LOW.
C8_RetryOneStepBelowLastQueue ==
    last_op.op = "retry" => last_op.to = Max(LOW, last_op.from - 1)

(***************************************************************************)
(* Properties of the handler                                               *)
(***************************************************************************)
SameChat(i, j) ==
    /\ qmsgs[i].message.channel = qmsgs[j].message.channel
    /\ qmsgs[i].message.chat_id = qmsgs[j].message.chat_id

\* C2: for every session, at most one agent turn is in progress at any time.
C2_OneTurnPerSession ==
    \A i, j \in HIds :
        (h_pc[i] = "turn" /\ h_pc[j] = "turn" /\ h_session[i] = h_session[j]) => i = j

\* C37: while a turn for a session is in progress, the active-task map holds
\* for that session the cancel token of that very turn; the end of another
\* turn for the session neither removes nor replaces it.
C37_ActiveTaskIsTheRunningTurn ==
    \A i \in HIds :
        h_pc[i] \in {"save_user", "turn"} =>
            /\ h_session[i] \in DOMAIN active_tasks
            /\ active_tasks[h_session[i]] = i

\* C5: when the handling of a dequeued message fails, mark_failed has been
\* applied to its QueuedMessage (its retry count was incremented and it was
\* put back on a sub-queue or on the dead-letter queue).
C5_FailureIsMarked ==
    \A i \in HIds : h_pc[i] = "failed" => qmsgs[i].retry_count > 0

\* C6: of two messages published for the same (channel, chat_id), the later
\* one's reply is published only after the handling of the earlier one has
\* ended.
C6_ProcessedInPublishOrder ==
    \A i, j \in 1..Len(qmsgs) :
        (i < j /\ SameChat(i, j) /\ InSeq(outbound, <<j, "reply">>))
            => h_pc[i] \in {"done", "failed"}

(***************************************************************************)
(* Properties of the cron scheduler                                        *)
(***************************************************************************)
\* C1: for every job id, at most one execution of CronExecutor.execute is in
\* progress at any time, whatever the interleaving of timer wake-ups,
\* reschedules and manual run requests.
C1_OneExecutionPerJob ==
    \A j \in JobIds : Executing(j) <= 1

\* C9: after stop is called, no executing job is cancelled before the 30 s of
\* stop's wait have passed.
C9_NoCancelBeforeGrace ==
    \A t \in TimerIds, j \in JobIds :
        (jt[t][j].pc = "exec" /\ jt[t][j].cancel_by = "stop") => grace_elapsed

\* C10: a disabled job that is at rest (no execution of it in flight) has no
\* next_run, also when it was disabled while an execution was in flight.
C10_DisabledHasNoNextRun ==
    \A j \in JobIds :
        (~db[j].enabled /\ ~JobTaskRunning(j) /\ manual[j] = 0) => db[j].next_run = 0

\* C11: every write to the record of an enabled job (add, update, scheduler
\* start, reschedule, the end of a run) leaves next_run strictly later than
\* the current time, also when the run lasted longer than a schedule period.
C11_NextRunInFuture ==
    [][\A j \in JobIds :
          (db'[j] # db[j] /\ db'[j].enabled) => db'[j].next_run > now']_vars

\* C12: after a successful add or update of a job the running scheduler has
\* re-armed its timer for the earliest next_run: the armed timer task is not in
\* the 60 s sleep of the no-jobs branch while an enabled job has a next_run,
\* and does not sleep beyond the earliest next_run.
C12_TimerArmedForEarliestNextRun ==
    (running /\ timer_task # 0 /\ ~timers[timer_task].cancel /\ NextWakeTime # 0)
    => /\ timers[timer_task].pc # "idle"
       /\ timers[timer_task].pc = "sleep" => timers[timer_task].wake <= NextWakeTime

\* C13: the armed timer task does not wait for the jobs of a batch: when a job
\* is due and has no task, a concurrency slot is free and a job of an earlier
\* batch is executing, the timer task is not inside the gather of that batch.
C13_TimerDoesNotWaitForBatch ==
    \A j \in JobIds :
        (/\ running
         /\ db[j].enabled /\ db[j].next_run # 0 /\ db[j].next_run <= now
         /\ \A t \in TimerIds : jt[t][j].pc = "none"
         /\ semaphore > 0
         /\ \E k \in JobIds : jt[timer_task][k].pc = "exec"
         /\ timer_task # 0)
        => ~(timers[timer_task].pc = "gather" /\ ~timers[timer_task].cancel)

\* a task of the scheduler executes job j and has not been cancelled
SchedulerExecutes(j) ==
    \E t \in TimerIds : jt[t][j].pc = "exec" /\ jt[t][j].cancel_by = "none"

C15_FailureIsRecorded ==
    [][(JobFail \/ JobHeartbeatFails \/ JobTimeout) =>
          \A t \in TimerIds, j \in JobIds :
              (jt[t][j].pc = "exec" /\ jt'[t][j].pc = "none") =>
                  /\ db'[j].last_status = "error"
                  /\ db'[j].last_error
                  /\ db'[j].error_count = db[j].error_count + 1]_vars

\* C36: re-arming the timer while the scheduler runs never cancels a job
\* execution in progress; the execution ends by itself or by its own timeout.
C36_RearmCancelsNoExecution ==
    \A t \in TimerIds, j \in JobIds :
        (running /\ jt[t][j].pc = "exec") => jt[t][j].cancel_by # "rearm"

\* C40: for every cron job error_count <= run_count at all times: an execution
\* counted as an error is also counted as a run, whether the executor raised,
\* the job timed out or the run was triggered by hand.
C40_ErrorsAreRuns ==
    \A j \in JobIds : db[j].exists => db[j].error_count <= db[j].run_count

\* C16: while the scheduler has not been stopped, no outcome of a batch
\* (a raising executor, a job timeout, a failed commit, an error while the due
\* jobs are queried) stops it: a live timer task is armed after every wake-up.
C16_TimerStaysArmed ==
    running =>
        /\ timer_task # 0
        /\ timers[timer_task].pc \in {"start", "sleep", "idle", "gather"}
        /\ ~timers[timer_task].cancel

\* a job's execution has failed and the timer sleeps until the next occurrence
C16_Witness ==
    /\ running /\ timer_task # 0
    /\ timers[timer_task].pc = "sleep" /\ timers[timer_task].wake > now
    /\ \E j \in JobIds : db[j].last_status = "error" /\ db[j].error_count = 1

(***************************************************************************)
(* ChannelManager: the outbound dispatcher and the adapters' supervision   *)
(***************************************************************************)
\* ChannelManager.channels: the adapters _init_channels registered
Channels == {"qq", "dingtalk"}

\* the channel names an OutboundMessage can carry; "discord" is in the
\* registry, its module cannot be imported, so no adapter is registered for it
ChannelNames == Channels \cup {"discord"}

ChatIds == {"c1", "c2"}

NoMsg == [id |-> 0, channel |-> "", chat_id |-> ""]

OutboundMessage(id, channel, chat_id) ==
    [id |-> id, channel |-> channel, chat_id |-> chat_id]

\* _start_channel_supervised: initial_backoff, max_backoff, and the running
\* time of start() above which the backoff is reset
InitialBackoff == 5
MaxBackoff == 300
ResetAfter == 60

\* the seconds a call of start() ran before it returned
ElapsedValues == {0, ResetAfter, ResetAfter + 1}

NoSup == [pc |-> "none", backoff |-> 0, k |-> 0]

ChanInit ==
    /\ mgr_running = FALSE
    /\ taken = 0
    /\ sending = NoMsg
    /\ sent = [a \in Channels |-> <<>>]
    /\ dropped = <<>>
    /\ produced = <<>>
    /\ sup = [a \in Channels |-> NoSup]
    /\ conns = [a \in Channels |-> 0]

GetChannelOrFirst(name) == IF name \in Channels THEN name ELSE "qq"

\* self.channels.get(name), ChannelManager.get_channel: the adapter, "" for None
GetChannel(name) == IF name \in Channels THEN name ELSE ""

\* start_all, called once when the application starts: the dispatcher task and
\* one supervising task per adapter are created
StartAll ==
    /\ ~mgr_running
    /\ stop_idx = 0
    /\ mgr_running' = TRUE
    /\ sup' = [a \in Channels |-> [pc |-> "loop", backoff |-> InitialBackoff, k |-> 0]]
    /\ UNCHANGED <<taken, sending, sent, dropped, produced, conns, busVars, hVars, cronVars, restVars>>

\* ChannelMessageHandler._send_reply, ChannelManager.send_message: bus.publish_outbound
PublishOutbound ==
    /\ Len(produced) < MaxOutbound
    /\ \E channel \in ChannelNames, chat_id \in ChatIds :
         LET m == OutboundMessage(Len(produced) + 1, channel, chat_id) IN
         /\ outbound' = Append(outbound, m)
         /\ produced' = Append(produced, m)
    /\ UNCHANGED <<h_pc, h_session, sessions, active_tasks, saved>>
    /\ UNCHANGED <<mgr_running, taken, sending, sent, dropped, sup, conns, busVars, cronVars, restVars>>

\* CronExecutor._deliver_to_channel: the result of a job with deliver_response
\* is passed to the send of the adapter get_channel returns
DeliverToChannel ==
    /\ Len(produced) < MaxOutbound
    /\ \E channel \in ChannelNames, chat_id \in ChatIds :
         LET m == OutboundMessage(Len(produced) + 1, channel, chat_id)
             channel_instance == GetChannel(channel)
         IN
         /\ produced' = Append(produced, m)
         /\ sent' = IF channel_instance = "" THEN sent
                    ELSE [sent EXCEPT ![channel_instance] = Append(@, m)]
    /\ UNCHANGED <<mgr_running, taken, sending, dropped, sup, conns, busVars, hVars, cronVars, restVars>>

\* _dispatch_outbound: consume_outbound returns a message; the adapter of its
\* channel is looked up and its send is called, or the message is dropped
DispatchTake ==
    /\ mgr_running
    /\ sending = NoMsg
    /\ taken < Len(outbound)
    /\ LET msg == outbound[taken + 1]
           channel == GetChannel(msg.channel)
       IN
       /\ taken' = taken + 1
       /\ IF channel # ""
          THEN /\ sent' = [sent EXCEPT ![channel] = Append(@, msg)]
               /\ sending' = msg
               /\ UNCHANGED dropped
          ELSE /\ dropped' = Append(dropped, msg)
               /\ UNCHANGED <<sent, sending>>
    /\ UNCHANGED <<mgr_running, produced, sup, conns, busVars, hVars, cronVars, restVars>>

\* _dispatch_outbound: channel.send returns, or raises and the error is logged
DispatchSendEnds ==
    /\ sending # NoMsg
    /\ sending' = NoMsg
    /\ UNCHANGED <<mgr_running, taken, sent, dropped, produced, sup, conns,
                   busVars, hVars, cronVars, restVars>>

\* QQChannel.start creates the task of _run_bot and returns; the start of
\* DingTalkChannel awaits the stream client until its connection ends
StartReturnsAtOnce(a) == a = "qq"

BackoffUncapped(backoff) == backoff * 2

\* _start_channel_supervised: backoff = min(backoff * 2, max_backoff)
NextBackoff(backoff) == IF backoff * 2 <= MaxBackoff THEN backoff * 2 ELSE MaxBackoff

\* _start_channel_supervised: channel.start() has returned or raised after
\* elapsed seconds; the supervisor sleeps the backoff
AfterStart(s, elapsed) ==
    [pc |-> "sleep",
     backoff |-> IF elapsed > ResetAfter THEN InitialBackoff ELSE s.backoff,
     k |-> IF elapsed > ResetAfter THEN 1 ELSE s.k + 1]

WhileRunningIgnored(r) == TRUE

\* _start_channel_supervised: while self._running
WhileRunning(r) == r

\* _start_channel_supervised calls channel.start(): the adapter opens a connection
SupCallStart ==
    /\ WhileRunning(mgr_running)
    /\ \E a \in Channels :
         /\ sup[a].pc = "loop"
         /\ sup[a].k < MaxRestarts
         /\ conns' = [conns EXCEPT ![a] = @ + 1]
         /\ sup' = [sup EXCEPT ![a] = IF StartReturnsAtOnce(a)
                                       THEN AfterStart(@, 0)
                                       ELSE [@ EXCEPT !.pc = "start"]]
    /\ UNCHANGED <<mgr_running, taken, sending, sent, dropped, produced,
                   busVars, hVars, cronVars, restVars>>

\* a connection ends: _run_bot exits; the client.start() that
\* DingTalkChannel.start awaits returns or raises, and start returns
ConnectionEnds ==
    /\ \E a \in Channels :
         /\ conns[a] > 0
         /\ conns' = [conns EXCEPT ![a] = @ - 1]
         /\ IF sup[a].pc = "start"
            THEN \E elapsed \in ElapsedValues :
                     sup' = [sup EXCEPT ![a] = IF mgr_running THEN AfterStart(@, elapsed)
                                                ELSE [@ EXCEPT !.pc = "done"]]
            ELSE UNCHANGED sup
    /\ UNCHANGED <<mgr_running, taken, sending, sent, dropped, produced,
                   busVars, hVars, cronVars, restVars>>

\* _start_channel_supervised: asyncio.sleep(backoff) returns
SupWake ==
    /\ \E a \in Channels :
         /\ sup[a].pc = "sleep"
         /\ sup' = [sup EXCEPT ![a] = [@ EXCEPT !.pc = "loop", !.backoff = NextBackoff(@)]]
    /\ UNCHANGED <<mgr_running, taken, sending, sent, dropped, produced, conns,
                   busVars, hVars, cronVars, restVars>>

\* _start_channel_supervised: the loop condition fails, the task ends
SupExit ==
    /\ \E a \in Channels :
         /\ sup[a].pc = "loop"
         /\ ~WhileRunning(mgr_running)
         /\ sup' = [sup EXCEPT ![a] = [@ EXCEPT !.pc = "done"]]
    /\ UNCHANGED <<mgr_running, taken, sending, sent, dropped, produced, conns,
                   notStopVars, restVars>>

\* the order of self.channels.items(): the order of the registry
ChannelOrder == <<"qq", "dingtalk">>

StopInit ==
    /\ stop_idx = 0
    /\ stop_log = <<>>

\* stop_all: self._running = False
StopAll ==
    /\ mgr_running
    /\ stop_idx = 0
    /\ mgr_running' = FALSE
    /\ stop_idx' = 1
    /\ UNCHANGED <<taken, sending, sent, dropped, produced, sup, conns, stop_log,
                   notStopVars>>

\* stop_all: await channel.stop() of the next adapter; it returns, or raises
\* and the error is logged. QQChannel.stop cancels the bot task start made
\* last; DingTalkChannel.stop closes the http client and leaves the stream
\* client alone.
StopChannel ==
    /\ stop_idx \in 1..Len(ChannelOrder)
    /\ LET a == ChannelOrder[stop_idx] IN
       /\ \E outcome \in {"ok", "raised"} :
              stop_log' = Append(stop_log, <<a, outcome>>)
       /\ \E n \in {conns[a], Max(conns[a] - 1, 0)} :
              /\ StartReturnsAtOnce(a) \/ n = conns[a]
              /\ conns' = [conns EXCEPT ![a] = n]
    /\ stop_idx' = stop_idx + 1
    /\ UNCHANGED <<mgr_running, taken, sending, sent, dropped, produced, sup,
                   notStopVars>>

(***************************************************************************)
(* Properties of the channel manager                                       *)
(***************************************************************************)
\* the position of message m in the sequence s (0: not there)
RECURSIVE IndexOf(_, _, _)
IndexOf(s, m, i) ==
    IF i > Len(s) THEN 0
    ELSE IF s[i] = m THEN i
    ELSE IndexOf(s, m, i + 1)

\* C17: for any two outbound messages for the same (channel, chat_id), the
\* adapter's send is called for them in the order in which they were made, and
\* every message an adapter's send is called with, a cron result included, was
\* taken from the outbound queue of the bus by the dispatcher.
C17_SentInPublishOrderViaBus ==
    \A a \in Channels :
        /\ \A i, j \in 1..Len(sent[a]) :
               (i < j /\ sent[a][i].chat_id = sent[a][j].chat_id)
                   => sent[a][i].id < sent[a][j].id
        /\ \A i \in 1..Len(sent[a]) :
               LET p == IndexOf(outbound, sent[a][i], 1) IN p # 0 /\ p <= taken

\* C18: every message the dispatcher has taken from the outbound queue was
\* passed to the send of the adapter registered under its channel name, once,
\* and to no other adapter; with no adapter under that name it was passed to
\* none and dropped.
C18_RoutedToNamedAdapterOrDropped ==
    \A i \in 1..taken :
        LET m == outbound[i] IN
        IF m.channel \in Channels
        THEN /\ \A a \in Channels :
                    SeqCount(sent[a], m) = IF a = m.channel THEN 1 ELSE 0
             /\ ~InSeq(dropped, m)
        ELSE /\ \A a \in Channels : ~InSeq(sent[a], m)
             /\ SeqCount(dropped, m) = 1

C18_Witness ==
    /\ taken >= 2
    /\ sending = NoMsg
    /\ \E i, j \in 1..taken :
         /\ outbound[i].channel \in Channels
         /\ InSeq(sent[outbound[i].channel], outbound[i])
         /\ outbound[j].channel \notin Channels
         /\ InSeq(dropped, outbound[j])

\* C19: the start of an adapter returns only when its connection has ended, so
\* while the supervisor waits to restart an adapter the adapter has no live
\* connection, and no adapter ever has more than one live connection.
C19_OneLiveConnection ==
    \A a \in Channels :
        /\ sup[a].pc = "sleep" => conns[a] = 0
        /\ conns[a] <= 1

\* C20: the wait before the k-th consecutive restart of an adapter is
\* min(5 * 2^(k-1), 300) seconds, k starting over at 1 after a start that ran
\* for more than 60 s.
C20_BackoffSequence ==
    \A a \in Channels :
        sup[a].pc = "sleep" =>
            sup[a].backoff = (IF 5 * 2^(sup[a].k - 1) <= 300 THEN 5 * 2^(sup[a].k - 1) ELSE 300)

C20_Witness ==
    \E a, b \in Channels :
        /\ sup[a].pc = "sleep" /\ sup[a].k = 8 /\ sup[a].backoff = 300
        /\ sup[b].pc = "sleep" /\ sup[b].k = 1 /\ sup[b].backoff = 5
        /\ ~StartReturnsAtOnce(b) /\ conns[b] = 0

StopAllReturned == stop_idx > Len(ChannelOrder)

\* C21: once stop_all has returned, stop() was called on every registered
\* adapter, whatever the stop() of another adapter did; and from the call of
\* stop_all on no adapter's start() is called, also not for an adapter that
\* was waiting out its backoff.
C21_StoppedForGood ==
    /\ [](StopAllReturned =>
              \A a \in Channels : \E i \in 1..Len(stop_log) : stop_log[i][1] = a)
    /\ [][stop_idx # 0 =>
              \A a \in Channels :
                  /\ conns'[a] <= conns[a]
                  /\ ~(sup[a].pc = "loop" /\ sup'[a].pc \in {"start", "sleep"})]_vars

C21_Witness ==
    /\ StopAllReturned
    /\ stop_log[1] = <<"qq", "raised">>
    /\ \E a \in Channels : sup[a].pc = "done" /\ sup[a].backoff > InitialBackoff
    /\ \E a \in Channels : sup[a].pc = "sleep"

(***************************************************************************)
(* The adapters' inbound side                                              *)
(***************************************************************************)
Adapters == {"telegram", "qq", "dingtalk", "feishu"}

\* the ids the provider assigns to messages
MessageIds == 1..3

\* QQChannel._on_message and FeishuChannel._process_message look the id up
\* in _processed_ids; TelegramChannel._on_message and
\* DingTalkChannel._on_message have no such lookup
Deduplicates(a) == a \in {"qq", "feishu"}

DedupInit ==
    /\ processed_ids = [a \in Adapters |-> <<>>]
    /\ events = <<>>

\* _processed_ids[message_id] = None; popitem(last=False) beyond the capacity
Remember(ids, message_id) ==
    LET added == Append(ids, message_id) IN
    IF Len(added) > MaxProcessedIds THEN Tail(added) ELSE added

\* _on_message / _process_message: an inbound event with a provider-assigned
\* id reaches the adapter, which drops it or passes it to _handle_message,
\* that is to the callback of the channel manager
OnMessage ==
    /\ Len(events) < MaxEvents
    /\ \E a \in Adapters, message_id \in MessageIds :
         IF Deduplicates(a)
         THEN IF InSeq(processed_ids[a], message_id)
              THEN /\ events' = Append(events, [channel |-> a, id |-> message_id, forwarded |-> FALSE])
                   /\ UNCHANGED processed_ids
              ELSE /\ events' = Append(events, [channel |-> a, id |-> message_id, forwarded |-> TRUE])
                   /\ processed_ids' = [processed_ids EXCEPT ![a] = Remember(@, message_id)]
         ELSE /\ events' = Append(events, [channel |-> a, id |-> message_id, forwarded |-> TRUE])
              /\ UNCHANGED processed_ids
    /\ UNCHANGED notDedupVars

\* the distinct ids adapter a got in the events p..q
IdsSeen(a, p, q) == {events[r].id : r \in {x \in p..q : events[x].channel = a}}

\* C22: no adapter forwards an event to the callback whose message id it has
\* forwarded before and that is still among the last ids (1000 in the
\* adapters) it has seen since.
C22_NoDuplicateForwarded ==
    \A p, q \in 1..Len(events) :
        (/\ p < q
         /\ events[p].channel = events[q].channel
         /\ events[p].id = events[q].id
         /\ events[p].forwarded
         /\ Cardinality(IdsSeen(events[p].channel, p, q - 1)) <= MaxProcessedIds)
        => ~events[q].forwarded

(***************************************************************************)
(* SessionManager.summarize_overflow                                       *)
(***************************************************************************)
\* the max_history the calls are made with
MaxHistory == 10

SumIds == 1..2

NoSum == [pc |-> "none", total_count |-> 0, lo |-> 0, hi |-> 0]

SumInit ==
    /\ n_msgs = 0
    /\ last_summarized = 0
    /\ memory = <<>>
    /\ sum = [c \in SumIds |-> NoSum]
    /\ sum_calls = 0
    /\ skipped = {}

\* a user or assistant message with content is saved in the session
AddMessage ==
    /\ n_msgs < MaxMessages
    /\ n_msgs' = n_msgs + 1
    /\ UNCHANGED <<last_summarized, memory, sum, sum_calls, skipped, notSumVars>>

\* the query of summarize_overflow: the messages with id > last_summarized_id,
\* oldest first, at most total_count - max_history of them; the id of the last
\* one selected (last_summarized_id itself when there is none)
LastSelected(last, total_count, max_history) ==
    IF last + (total_count - max_history) <= total_count
    THEN last + (total_count - max_history)
    ELSE total_count

\* summarize_overflow up to the LLM call: nothing overflows or nothing is
\* selected and it returns; fewer than 3 are selected and it only moves the
\* pointer; or it sends the selected messages to the LLM
SumBegin ==
    /\ sum_calls < MaxSumCalls
    /\ sum_calls' = sum_calls + 1
    /\ \E c \in SumIds :
         /\ sum[c].pc = "none"
         /\ LET lo == last_summarized + 1
                hi == LastSelected(last_summarized, n_msgs, MaxHistory)
            IN
            IF n_msgs <= MaxHistory \/ hi < lo
            THEN UNCHANGED <<last_summarized, sum, skipped>>
            ELSE IF hi - lo + 1 < 3
            THEN /\ last_summarized' = hi
                 /\ skipped' = skipped \cup (lo..hi)
                 /\ UNCHANGED sum
            ELSE /\ sum' = [sum EXCEPT ![c] = [pc |-> "llm", total_count |-> n_msgs,
                                                   lo |-> lo, hi |-> hi]]
                 /\ UNCHANGED <<last_summarized, skipped>>
    /\ UNCHANGED <<n_msgs, memory, notSumVars>>

\* the stream delivers a summary: it is appended to the memory file and the
\* pointer is set to the last selected message
SumLLMContent ==
    /\ \E c \in SumIds :
         /\ sum[c].pc = "llm"
         /\ memory' = Append(memory, [source |-> "auto-overflow", lo |-> sum[c].lo, hi |-> sum[c].hi])
         /\ last_summarized' = sum[c].hi
         /\ sum' = [sum EXCEPT ![c] = NoSum]
    /\ UNCHANGED <<n_msgs, sum_calls, skipped, notSumVars>>

\* chat_stream catches the failure of the LLM call and yields one chunk with
\* error set; summarize_overflow collects no content, writes nothing and sets
\* the pointer
SumLLMErrorChunk ==
    /\ \E c \in SumIds :
         /\ sum[c].pc = "llm"
         /\ last_summarized' = sum[c].hi
         /\ sum' = [sum EXCEPT ![c] = NoSum]
    /\ UNCHANGED <<n_msgs, memory, sum_calls, skipped, notSumVars>>

\* the stream delivers an empty summary or one that says there is nothing to
\* record: nothing is written and the pointer is set
SumNothingToRecord ==
    /\ \E c \in SumIds :
         /\ sum[c].pc = "llm"
         /\ last_summarized' = sum[c].hi
         /\ sum' = [sum EXCEPT ![c] = NoSum]
    /\ UNCHANGED <<n_msgs, memory, sum_calls, skipped, notSumVars>>

\* the provider raises: the except branch logs it
SumLLMRaises ==
    /\ \E c \in SumIds :
         /\ sum[c].pc = "llm"
         /\ sum' = [sum EXCEPT ![c] = NoSum]
    /\ UNCHANGED <<n_msgs, last_summarized, memory, sum_calls, skipped, notSumVars>>

(***************************************************************************)
(* Properties of summarize_overflow                                        *)
(***************************************************************************)
\* C23: in a session of 25 messages with max_history 10, the first
\* summarize_overflow call that moves the pointer sets it to the id of the
\* 15th message, and a call made after that with no new messages changes
\* neither the pointer nor the memory file.
C23_SecondCallIsNoOp ==
    [][(n_msgs = 25 /\ n_msgs' = 25) =>
          /\ \A c \in SumIds :
                 (/\ sum[c].pc = "llm" /\ sum'[c].pc = "none"
                  /\ sum[c].total_count = 25 /\ sum[c].lo = 1
                  /\ last_summarized = 0 /\ last_summarized' # 0)
                 => last_summarized' = 15
          /\ (/\ last_summarized = 15
              /\ \A c \in SumIds :
                     sum[c].pc # "none" => (sum[c].total_count = 25 /\ sum[c].lo = 16))
             => (last_summarized' = 15 /\ memory' = memory)]_vars

\* C24: when the LLM call of summarize_overflow fails, by raising or by an
\* error chunk in the stream, the pointer is left where it was.
C24_FailureKeepsPointer ==
    [][(SumLLMRaises \/ SumLLMErrorChunk) => last_summarized' = last_summarized]_vars

Summarized(id) ==
    \E i \in 1..Len(memory) :
        memory[i].source = "auto-overflow" /\ memory[i].lo <= id /\ id <= memory[i].hi

\* C25: when no summarize_overflow call is in flight, every message up to the
\* pointer is in a summary written to the memory file or was passed over for
\* being one of fewer than 3, and no message after the pointer is in a summary.
C25_PointerSplitsSummarized ==
    (\A c \in SumIds : sum[c].pc = "none") =>
        \A id \in 1..n_msgs :
            /\ id <= last_summarized => (Summarized(id) \/ id \in skipped)
            /\ id > last_summarized => ~Summarized(id)

(***************************************************************************)
(* MemoryStore.append_entry                                                *)
(***************************************************************************)
\* the callers that append to the same memory file at the same time
AppIds == 1..3

NoApp == [pc |-> "none", entry |-> 0, lines |-> <<>>]

MemInit ==
    /\ memory_file = <<>>
    /\ app = [c \in AppIds |-> NoApp]
    /\ returned = {}

\* the entries made so far are numbered; a line of the file is the number of
\* the entry it holds
EntriesMade == returned \cup {app[c].entry : c \in {x \in AppIds : app[x].pc # "none"}}

\* append_entry: the entry is formatted and lines = self._read_lines()
AppendRead ==
    /\ Cardinality(EntriesMade) < MaxAppends
    /\ \E c \in AppIds :
         /\ app[c].pc = "none"
         /\ app' = [app EXCEPT ![c] = [pc |-> "read",
                                       entry |-> Cardinality(EntriesMade) + 1,
                                       lines |-> memory_file]]
    /\ UNCHANGED <<memory_file, returned, notMemVars>>

\* append_entry: lines.append(entry); self._write_lines(lines) rewrites the
\* file with the lines read and the new one; the call returns
AppendWrite ==
    /\ \E c \in AppIds :
         /\ app[c].pc = "read"
         /\ memory_file' = Append(app[c].lines, app[c].entry)
         /\ returned' = returned \cup {app[c].entry}
         /\ app' = [app EXCEPT ![c] = NoApp]
    /\ UNCHANGED notMemVars

Fronts == {"channel", "ws"}

NoTurn == [pc |-> "none", parts |-> 0, cancelled |-> FALSE, complete |-> FALSE, saved |-> -1]

TurnInit == turn = [f \in Fronts |-> NoTurn]

\* the user message is saved and agent_loop.process_message is started with a
\* fresh cancel token
TurnStart ==
    /\ \E f \in Fronts :
         /\ turn[f].pc = "none"
         /\ turn' = [turn EXCEPT ![f] = [NoTurn EXCEPT !.pc = "stream"]]
    /\ UNCHANGED notTurnVars

\* /stop (cancel_task), POST cancel and the WebSocket cancel (cancel_session):
\* the token of the turn in progress is cancelled
CancelTurn ==
    /\ \E f \in Fronts :
         /\ turn[f].pc = "stream"
         /\ ~turn[f].cancelled
         /\ turn' = [turn EXCEPT ![f] = [@ EXCEPT !.cancelled = TRUE]]
    /\ UNCHANGED notTurnVars

\* the agent yields a chunk: the loop leaves on a cancelled token, else the
\* chunk is collected
TurnChunk ==
    /\ \E f \in Fronts :
         /\ turn[f].pc = "stream"
         /\ turn[f].cancelled \/ turn[f].parts < MaxChunks
         /\ turn' = [turn EXCEPT ![f] =
                        IF @.cancelled THEN [@ EXCEPT !.pc = "after"]
                        ELSE [@ EXCEPT !.parts = @ + 1]]
    /\ UNCHANGED notTurnVars

\* the agent's stream ends with the output complete
TurnStreamEnds ==
    /\ \E f \in Fronts :
         /\ turn[f].pc = "stream"
         /\ ~turn[f].cancelled
         /\ turn[f].parts > 0
         /\ turn' = [turn EXCEPT ![f] = [@ EXCEPT !.pc = "after", !.complete = TRUE]]
    /\ UNCHANGED notTurnVars

\* after the loop: handle_message returns without saving when the token is
\* cancelled and saves the response otherwise; handle_message_event saves
\* assistant_content whenever it is not empty
SavesAssistant(front, t) ==
    IF front = "channel" THEN ~t.cancelled
    ELSE t.parts > 0

\* the code after the loop runs: the assistant message is saved or not
TurnFinish ==
    /\ \E f \in Fronts :
         /\ turn[f].pc = "after"
         /\ turn' = [turn EXCEPT ![f] =
                        [pc |-> "done", parts |-> turn[f].parts,
                         cancelled |-> turn[f].cancelled, complete |-> turn[f].complete,
                         saved |-> IF SavesAssistant(f, turn[f]) THEN turn[f].parts ELSE -1]]
    /\ UNCHANGED notTurnVars

\* C27: when a turn was cancelled before the agent's output was complete, no
\* assistant message with the partial output is appended to the session.
C27_NoPartialAssistantMessage ==
    \A f \in Fronts :
        (turn[f].cancelled /\ ~turn[f].complete) => turn[f].saved = -1

(***************************************************************************)
(* Saving messages: Session.updated_at and Message.created_at              *)
(***************************************************************************)
Roles == {"user", "assistant"}

\* the session exists, created at time 0
StampInit ==
    /\ s_clock = 0
    /\ s_updated_at = 0
    /\ s_messages = <<>>
    /\ s_last = [role |-> "", ok |-> TRUE]

StampTick ==
    /\ s_clock < MaxStampTime
    /\ s_clock' = s_clock + 1
    /\ UNCHANGED <<s_updated_at, s_messages, s_last, notStampVars>>

\* Message(...): created_at defaults to utc_now when the row is inserted
NewMessage(role) == [role |-> role, created_at |-> s_clock]

\* SessionManager.get_message_count
MessageCount == Len(s_messages)

\* the roles add_message is called with
RequestedRoles == {"user", "assistant", "system", "tool", "function"}

\* add_message: role in ('user', 'assistant', 'system')
ValidRole(role) == role \in {"user", "assistant", "system"}

\* SessionManager.add_message: the message is added and session.updated_at set
SessionAddMessage ==
    /\ Len(s_messages) < MaxSaved
    /\ \E role \in RequestedRoles :
         /\ ValidRole(role)
         /\ s_messages' = Append(s_messages, NewMessage(role))
         /\ s_last' = [role |-> role, ok |-> TRUE]
    /\ s_updated_at' = s_clock
    /\ UNCHANGED <<s_clock, notStampVars>>

\* SessionManager.add_message raises ValueError: nothing is added
SessionAddMessageRaises ==
    /\ \E role \in RequestedRoles :
         /\ ~ValidRole(role)
         /\ s_last' = [role |-> role, ok |-> FALSE]
    /\ UNCHANGED <<s_clock, s_updated_at, s_messages, notStampVars>>

\* ChannelMessageHandler._save_message: db.add(Message(...)); commit
HandlerSaveMessage ==
    /\ Len(s_messages) < MaxSaved
    /\ \E role \in Roles : s_messages' = Append(s_messages, NewMessage(role))
    /\ UNCHANGED <<s_clock, s_updated_at, s_last, notStampVars>>

\* CronExecutor._save_messages_to_db: the prompt and the response are added
\* in one commit
CronSaveMessages ==
    /\ Len(s_messages) + 2 <= MaxSaved
    /\ s_messages' = s_messages \o <<NewMessage("user"), NewMessage("assistant")>>
    /\ UNCHANGED <<s_clock, s_updated_at, s_last, notStampVars>>

\* C28: every operation that appends messages to the session raises its
\* message count by one per message appended, and afterwards the session's
\* updated_at is not before the created_at of any message appended.
C28_CountAndUpdatedAt ==
    [][/\ (SessionAddMessage \/ HandlerSaveMessage) => MessageCount' = MessageCount + 1
       /\ CronSaveMessages => MessageCount' = MessageCount + 2
       /\ \A i \in (Len(s_messages) + 1)..Len(s_messages') :
              s_updated_at' >= s_messages'[i].created_at]_vars

\* C34: add_message succeeds for the roles user, assistant, system and tool,
\* and fails for every other role without changing the session's messages.
C34_RolesAccepted ==
    [][(SessionAddMessage \/ SessionAddMessageRaises) =>
          IF s_last'.role \in {"user", "assistant", "system", "tool"}
          THEN /\ s_last'.ok
               /\ s_messages' = Append(s_messages, NewMessage(s_last'.role))
          ELSE /\ ~s_last'.ok
               /\ s_messages' = s_messages]_vars

(***************************************************************************)
(* RateLimiter                                                             *)
(***************************************************************************)
Senders == {"u1", "u2"}

RateInit ==
    /\ rl_rate = 0
    /\ rl_per = 0
    /\ rl_now = 0
    /\ rl_buckets = EmptyMap
    /\ rl_log = [u \in Senders |-> <<>>]

\* RateLimiter.__init__(rate, per)
NewRateLimiter ==
    /\ rl_rate = 0
    /\ \E rate \in 1..MaxRate, per \in 1..MaxPer :
         /\ rl_rate' = rate
         /\ rl_per' = per
    /\ UNCHANGED <<rl_now, rl_buckets, rl_log, notRateVars>>

RateTick ==
    /\ rl_rate # 0
    /\ rl_now < MaxRateTime
    /\ rl_now' = rl_now + 1
    /\ UNCHANGED <<rl_rate, rl_per, rl_buckets, rl_log, notRateVars>>

\* Token counts are kept multiplied by per, so that the refill of
\* elapsed * (rate / per) tokens is the whole number elapsed * rate.
InitialTokensFull(rate, per) == rate * per

\* check, first request of a sender: (self.rate - 1, now)
InitialTokens(rate, per) == (rate - 1) * per

\* check: tokens = min(self.rate, tokens + elapsed * (self.rate / self.per))
Refill(tokens, elapsed, rate, per) ==
    IF tokens + elapsed * rate <= rate * per THEN tokens + elapsed * rate ELSE rate * per

\* check: wait_time = int((1 - tokens) * (self.per / self.rate))
WaitTime(tokens, rate, per) == (per - tokens) \div rate

\* RateLimiter.check(user_id)
Check ==
    /\ rl_rate # 0
    /\ \E u \in Senders :
         /\ Len(rl_log[u]) < rl_rate + 1
         /\ IF u \notin DOMAIN rl_buckets
            THEN /\ rl_buckets' = [x \in DOMAIN rl_buckets \cup {u} |->
                                     IF x = u
                                     THEN [tokens |-> InitialTokens(rl_rate, rl_per),
                                           last_update |-> rl_now]
                                     ELSE rl_buckets[x]]
                 /\ rl_log' = [rl_log EXCEPT ![u] =
                                  Append(@, [time |-> rl_now, tokens |-> rl_rate * rl_per,
                                             allowed |-> TRUE, wait |-> 0])]
            ELSE LET tokens == Refill(rl_buckets[u].tokens, rl_now - rl_buckets[u].last_update,
                                      rl_rate, rl_per)
                 IN
                 IF tokens >= rl_per
                 THEN /\ rl_buckets' = [rl_buckets EXCEPT ![u] =
                                           [tokens |-> tokens - rl_per, last_update |-> rl_now]]
                      /\ rl_log' = [rl_log EXCEPT ![u] =
                                       Append(@, [time |-> rl_now, tokens |-> tokens,
                                                  allowed |-> TRUE, wait |-> 0])]
                 ELSE /\ UNCHANGED rl_buckets
                      /\ rl_log' = [rl_log EXCEPT ![u] =
                                       Append(@, [time |-> rl_now, tokens |-> tokens,
                                                  allowed |-> FALSE,
                                                  wait |-> WaitTime(tokens, rl_rate, rl_per)])]
    /\ UNCHANGED <<rl_rate, rl_per, rl_now, notRateVars>>

\* the sender's check number rate + 1 was made within per seconds of the first
LastWithinPer(u) ==
    /\ rl_rate # 0
    /\ Len(rl_log[u]) = rl_rate + 1
    /\ rl_log[u][rl_rate + 1].time - rl_log[u][1].time < rl_per

\* C29 as stated: the first check of a sender is allowed, and when rate
\* further checks follow within per seconds of the first, the last of them is
\* denied with a wait of more than 0 seconds.
C29_DeniedWithinPer ==
    \A u \in Senders :
        /\ Len(rl_log[u]) >= 1 => rl_log[u][1].allowed
        /\ LastWithinPer(u) =>
               (~rl_log[u][rl_rate + 1].allowed /\ rl_log[u][rl_rate + 1].wait > 0)

\* the sender's check number rate + 1 was made before one token was refilled
\* since the first, that is less than per / rate seconds after it
LastBeforeRefill(u) ==
    /\ rl_rate # 0
    /\ Len(rl_log[u]) = rl_rate + 1
    /\ (rl_log[u][rl_rate + 1].time - rl_log[u][1].time) * rl_rate < rl_per

\* C29, amended: the first rate checks of a sender are allowed; when the check
\* number rate + 1 is made less than per / rate seconds after the first, it is
\* denied; and a denied check reports the whole seconds until one token is
\* there, rounded down, which is 0 when less than a second is missing.
C29_DeniedBeforeRefill ==
    \A u \in Senders :
        /\ \A k \in 1..Len(rl_log[u]) : k <= rl_rate => rl_log[u][k].allowed
        /\ LastBeforeRefill(u) => ~rl_log[u][rl_rate + 1].allowed
        /\ \A k \in 1..Len(rl_log[u]) :
               ~rl_log[u][k].allowed =>
                   /\ rl_log[u][k].wait >= 0
                   /\ rl_log[u][k].wait * rl_rate <= rl_per - rl_log[u][k].tokens
                   /\ rl_per - rl_log[u][k].tokens < (rl_log[u][k].wait + 1) * rl_rate

C29_Witness ==
    \E u \in Senders :
        /\ rl_rate >= 2
        /\ LastBeforeRefill(u)
        /\ rl_log[u][rl_rate + 1].time > rl_log[u][1].time
        /\ ~rl_log[u][rl_rate + 1].allowed
        /\ rl_log[u][rl_rate + 1].wait > 0

(***************************************************************************)
(* The cron API and the builtin jobs                                       *)
(***************************************************************************)
BUILTIN_PREFIX == "builtin:"

\* A job id is a pair <<prefix, rest>>, so that startswith can be computed.
HEARTBEAT_JOB_ID == <<BUILTIN_PREFIX, "heartbeat">>
HEARTBEAT_JOB_NAME == "heartbeat-name"
HEARTBEAT_SCHEDULE == "0 * * * *"
HEARTBEAT_MESSAGE == "__heartbeat__"

UuidJobId == <<"", "uuid-1">>
ApiJobIds == {HEARTBEAT_JOB_ID, <<BUILTIN_PREFIX, "other">>, UuidJobId}

None == "None"
ApiNames == {"renamed"}
ApiMessages == {"new message"}
ApiSchedules == {HEARTBEAT_SCHEDULE, "*/5 * * * *"}
BadSchedule == "not a cron expression"
\* the values of the enabled column, written as Python prints them
ApiEnabled == {"True", "False"}

NoResp == [seq |-> 0, op |-> "none", job_id |-> <<>>, name |-> None, message |-> None, status |-> 0]

ApiInit ==
    /\ api_jobs = EmptyMap
    /\ api_resp = NoResp

\* job_id.startswith(BUILTIN_PREFIX)
StartsWithBuiltin(job_id) == job_id[1] = BUILTIN_PREFIX

Respond(op, job_id, name, message, status) ==
    api_resp' = [seq |-> api_resp.seq + 1, op |-> op, job_id |-> job_id,
                 name |-> name, message |-> message, status |-> status]

\* ensure_heartbeat_job: at application start and after a settings update
EnsureHeartbeatJob ==
    /\ \E enabled \in ApiEnabled, schedule \in ApiSchedules :
         IF HEARTBEAT_JOB_ID \in DOMAIN api_jobs
         THEN api_jobs' = [api_jobs EXCEPT ![HEARTBEAT_JOB_ID].enabled = enabled,
                                           ![HEARTBEAT_JOB_ID].schedule = schedule]
         ELSE api_jobs' = [x \in DOMAIN api_jobs \cup {HEARTBEAT_JOB_ID} |->
                             IF x = HEARTBEAT_JOB_ID
                             THEN [name |-> HEARTBEAT_JOB_NAME, message |-> HEARTBEAT_MESSAGE,
                                   enabled |-> enabled, schedule |-> schedule]
                             ELSE api_jobs[x]]
    /\ UNCHANGED <<api_resp, notApiVars>>

\* create_cron_job -> CronService.add_job: the id is a new uuid
CreateCronJob ==
    /\ api_resp.seq < MaxRequests
    /\ UuidJobId \notin DOMAIN api_jobs
    /\ \E name \in ApiNames, message \in ApiMessages, schedule \in ApiSchedules :
         /\ api_jobs' = [x \in DOMAIN api_jobs \cup {UuidJobId} |->
                            IF x = UuidJobId
                            THEN [name |-> name, message |-> message,
                                  enabled |-> "True", schedule |-> schedule]
                            ELSE api_jobs[x]]
         /\ Respond("create", UuidJobId, name, message, 200)
    /\ UNCHANGED notApiVars

CarriesName(name, message) == name # None

\* update_cron_job: request.name is not None or request.message is not None
CarriesNameOrMessage(name, message) == name # None \/ message # None

\* CronService.update_job
ServiceUpdateJob(job, name, schedule, message, enabled) ==
    [name |-> IF name # None THEN name ELSE job.name,
     schedule |-> IF schedule # None THEN schedule ELSE job.schedule,
     message |-> IF message # None THEN message ELSE job.message,
     enabled |-> IF enabled # None THEN enabled ELSE job.enabled]

\* PUT /jobs/{job_id}
UpdateCronJob ==
    /\ api_resp.seq < MaxRequests
    /\ \E job_id \in ApiJobIds, name \in ApiNames \cup {None}, message \in ApiMessages \cup {None},
          schedule \in ApiSchedules \cup {None, BadSchedule}, enabled \in ApiEnabled \cup {None} :
         IF StartsWithBuiltin(job_id) /\ CarriesNameOrMessage(name, message)
         THEN /\ Respond("update", job_id, name, message, 403)
              /\ UNCHANGED api_jobs
         ELSE IF job_id \notin DOMAIN api_jobs
         THEN /\ Respond("update", job_id, name, message, 404)
              /\ UNCHANGED api_jobs
         ELSE IF schedule = BadSchedule
         THEN /\ Respond("update", job_id, name, message, 400)
              /\ UNCHANGED api_jobs
         ELSE /\ api_jobs' = [api_jobs EXCEPT ![job_id] =
                                 ServiceUpdateJob(@, name, schedule, message, enabled)]
              /\ Respond("update", job_id, name, message, 200)
    /\ UNCHANGED notApiVars

\* DELETE /jobs/{job_id}
DeleteCronJob ==
    /\ api_resp.seq < MaxRequests
    /\ \E job_id \in ApiJobIds :
         IF StartsWithBuiltin(job_id)
         THEN /\ Respond("delete", job_id, None, None, 403)
              /\ UNCHANGED api_jobs
         ELSE IF job_id \notin DOMAIN api_jobs
         THEN /\ Respond("delete", job_id, None, None, 404)
              /\ UNCHANGED api_jobs
         ELSE /\ api_jobs' = [x \in DOMAIN api_jobs \ {job_id} |-> api_jobs[x]]
              /\ Respond("delete", job_id, None, None, 200)
    /\ UNCHANGED notApiVars

\* the request just answered asked to delete a builtin job, or to change the
\* name or the message of one
AgainstBuiltin(r) ==
    /\ StartsWithBuiltin(r.job_id)
    /\ \/ r.op = "delete"
       \/ r.op = "update" /\ (r.name # None \/ r.message # None)

\* C30: a builtin job keeps its name and its message and is never deleted,
\* whatever the requests; an update that carries a name or a message and every
\* delete of a builtin job is answered with 403 and changes no job.
C30_BuiltinJobsProtected ==
    [][/\ \A b \in DOMAIN api_jobs :
            StartsWithBuiltin(b) =>
                /\ b \in DOMAIN api_jobs'
                /\ api_jobs'[b].name = api_jobs[b].name
                /\ api_jobs'[b].message = api_jobs[b].message
       /\ (api_resp' # api_resp /\ AgainstBuiltin(api_resp')) =>
            (api_resp'.status = 403 /\ api_jobs' = api_jobs)]_vars

C30_Witness ==
    /\ HEARTBEAT_JOB_ID \in DOMAIN api_jobs
    /\ api_resp.op = "update"
    /\ api_resp.job_id = HEARTBEAT_JOB_ID
    /\ api_resp.name = None
    /\ api_resp.message # None
    /\ api_resp.status = 403

(***************************************************************************)
(* HeartbeatService.execute                                                *)
(***************************************************************************)
DEFAULT_MAX_GREETS_PER_DAY == 2

HbDays == 0..MaxHbDay
HbCalls == 1..MaxHbCalls
NoHbCall == [pc |-> "idle", kind |-> "none", today |-> 0, greet_count |-> 0]

HeartbeatInit ==
    /\ hb_day = 0
    /\ hb_count = EmptyMap
    /\ hb_call = [c \in HbCalls |-> NoHbCall]
    /\ hb_runs = 0
    /\ hb_greetings = [d \in HbDays |-> 0]

\* midnight in Asia/Shanghai
HbNextDay ==
    /\ hb_day < MaxHbDay
    /\ hb_day' = hb_day + 1
    /\ UNCHANGED <<hb_count, hb_call, hb_runs, hb_greetings, notHbVars>>

\* self._greet_count_today.get(today, 0)
GreetCount(counts, today) == IF today \in DOMAIN counts THEN counts[today] ELSE 0

\* the scheduler runs one execution of a job at a time, and trigger_cron_job
\* answers 409 while the scheduler has the job in _active_jobs; a manual run
\* is not entered there
NoScheduledRun ==
    \A c \in HbCalls :
        hb_call[c].pc # "idle" => hb_call[c].kind = "manual"

\* execute, up to its first await: quiet hours and the daily limit
HbExecuteBegin ==
    /\ hb_runs < MaxHbRuns
    /\ \E c \in HbCalls, kind \in {"scheduled", "manual"}, quiet \in BOOLEAN :
         /\ hb_call[c].pc = "idle"
         /\ NoScheduledRun
         /\ hb_runs' = hb_runs + 1
         /\ IF quiet \/ GreetCount(hb_count, hb_day) >= DEFAULT_MAX_GREETS_PER_DAY
            THEN UNCHANGED hb_call
            ELSE hb_call' = [hb_call EXCEPT ![c] =
                                [pc |-> "await", kind |-> kind, today |-> hb_day,
                                 greet_count |-> GreetCount(hb_count, hb_day)]]
    /\ UNCHANGED <<hb_day, hb_count, hb_greetings, notHbVars>>

\* execute: the user is not idle, the random draw is lost, or the LLM gives
\* no greeting
HbExecuteSkips ==
    /\ \E c \in HbCalls :
         /\ hb_call[c].pc = "await"
         /\ hb_call' = [hb_call EXCEPT ![c].pc = "idle"]
    /\ UNCHANGED <<hb_day, hb_count, hb_runs, hb_greetings, notHbVars>>

\* execute: the counts of the three most recent days are kept
KeepRecent(counts) ==
    IF Cardinality(DOMAIN counts) > 3
    THEN [d \in {x \in DOMAIN counts :
                    Cardinality({y \in DOMAIN counts : y > x}) < 3} |-> counts[d]]
    ELSE counts

\* execute: self._greet_count_today[today] = greet_count + 1
CountAfterGreeting(counts, today, greet_count) ==
    [d \in DOMAIN counts \cup {today} |->
        IF d = today THEN greet_count + 1 ELSE counts[d]]

\* execute: the greeting was generated and is returned
HbExecuteGreets ==
    /\ \E c \in HbCalls :
         /\ hb_call[c].pc = "await"
         /\ hb_count' = KeepRecent(CountAfterGreeting(hb_count, hb_call[c].today,
                                                      hb_call[c].greet_count))
         /\ hb_greetings' = [hb_greetings EXCEPT ![hb_call[c].today] = @ + 1]
         /\ hb_call' = [hb_call EXCEPT ![c].pc = "idle"]
    /\ UNCHANGED <<hb_day, hb_runs, notHbVars>>

\* C31: on every Shanghai calendar day execute returns at most
\* max_greets_per_day non-empty greetings, whatever the number and the
\* interleaving of scheduled and manual runs.
C31_AtMostMaxGreetsPerDay ==
    \A d \in HbDays : hb_greetings[d] <= DEFAULT_MAX_GREETS_PER_DAY

(***************************************************************************)
(* SubagentManager                                                         *)
(***************************************************************************)
MaxIterations == 15

\* the numbers of tool calls one LLM stream may carry
ToolCallCounts == {0, 1, 2}

NoRun == [pc |-> "none", iteration |-> 0, buffer |-> <<>>, next |-> 0, cancel_requested |-> FALSE,
          stream_error |-> FALSE]

SubInit ==
    /\ sub_in_tasks = FALSE
    /\ sub_task = [status |-> "none", error |-> ""]
    /\ sub_running = FALSE
    /\ sub_run = NoRun
    /\ sub_messages = <<>>
    /\ sub_deferred = "none"
    /\ sub_deleted = FALSE

\* SubagentManager.create_task
SubCreateTask ==
    /\ sub_task.status = "none"
    /\ sub_task' = [status |-> "pending", error |-> ""]
    /\ sub_in_tasks' = TRUE
    /\ UNCHANGED <<sub_running, sub_run, sub_messages, sub_deferred, sub_deleted, notSubVars>>

\* SubagentManager.execute_task
SubExecuteTask ==
    /\ sub_in_tasks
    /\ sub_task.status = "pending"
    /\ sub_task' = [sub_task EXCEPT !.status = "running"]
    /\ sub_run' = [NoRun EXCEPT !.pc = "start"]
    /\ sub_running' = TRUE
    /\ UNCHANGED <<sub_in_tasks, sub_messages, sub_deferred, sub_deleted, notSubVars>>

\* _run_task, finally: the entry of running_tasks is removed
RunEnds(status, error) ==
    /\ sub_task' = [status |-> status, error |-> error]
    /\ sub_running' = FALSE
    /\ sub_run' = [sub_run EXCEPT !.pc = "ended"]

\* _run_task, the head of the while loop: the next chat_stream call is made
\* with messages, or the loop is left at the iteration cap
LoopHead(iteration) ==
    IF iteration < MaxIterations
    THEN /\ sub_run' = [sub_run EXCEPT !.pc = "llm", !.iteration = iteration + 1,
                                       !.buffer = <<>>, !.next = 0]
         /\ UNCHANGED <<sub_task, sub_running>>
    ELSE RunEnds("completed", "")

\* _run_task starts: the first chat_stream call
SubStart ==
    /\ sub_run.pc = "start"
    /\ ~sub_run.cancel_requested
    /\ LoopHead(sub_run.iteration)
    /\ UNCHANGED <<sub_in_tasks, sub_messages, sub_deferred, sub_deleted, notSubVars>>

\* the id the LLM gives the k-th tool call of an iteration
ToolCallId(iteration, k) == <<iteration, k>>

AssistantMessage(tool_calls) == [role |-> "assistant", tool_calls |-> tool_calls, tool_call_id |-> <<>>]

ToolMessageOfFirst(buffer, k) == [role |-> "tool", tool_calls |-> <<>>, tool_call_id |-> buffer[1]]

\* _run_task: {"role": "tool", "tool_call_id": tool_call.id, ...}
ToolMessage(buffer, k) == [role |-> "tool", tool_calls |-> <<>>, tool_call_id |-> buffer[k]]

\* the stream ends after its finish chunk, with the tool calls it carried
SubStreamEnds ==
    /\ sub_run.pc = "llm"
    /\ ~sub_run.cancel_requested
    /\ \E n \in ToolCallCounts :
         LET tool_calls == [k \in 1..n |-> ToolCallId(sub_run.iteration, k)]
         IN
         IF n > 0
         THEN /\ sub_messages' = Append(sub_messages, AssistantMessage(tool_calls))
              /\ sub_run' = [sub_run EXCEPT !.pc = "tool", !.buffer = tool_calls, !.next = 1]
              /\ UNCHANGED <<sub_task, sub_running>>
         ELSE /\ RunEnds("completed", "")
              /\ UNCHANGED sub_messages
    /\ UNCHANGED <<sub_in_tasks, sub_deferred, sub_deleted, notSubVars>>

\* the stream ends with the error chunk of LiteLLMProvider.chat_stream, which
\* is neither content nor a tool call
SubStreamErrorChunk ==
    /\ sub_run.pc = "llm"
    /\ ~sub_run.cancel_requested
    /\ sub_task' = [status |-> "completed", error |-> ""]
    /\ sub_running' = FALSE
    /\ sub_run' = [sub_run EXCEPT !.pc = "ended", !.stream_error = TRUE]
    /\ UNCHANGED <<sub_in_tasks, sub_messages, sub_deferred, sub_deleted, notSubVars>>

\* tools.execute returns its text
SubToolReturns ==
    /\ sub_run.pc = "tool"
    /\ ~sub_run.cancel_requested
    /\ sub_messages' = Append(sub_messages, ToolMessage(sub_run.buffer, sub_run.next))
    /\ IF sub_run.next < Len(sub_run.buffer)
       THEN /\ sub_run' = [sub_run EXCEPT !.next = @ + 1]
            /\ UNCHANGED <<sub_task, sub_running>>
       ELSE LoopHead(sub_run.iteration)
    /\ UNCHANGED <<sub_in_tasks, sub_deferred, sub_deleted, notSubVars>>

\* tools.execute raises
SubToolRaises ==
    /\ sub_run.pc = "tool"
    /\ ~sub_run.cancel_requested
    /\ RunEnds("failed", "tool raised")
    /\ UNCHANGED <<sub_in_tasks, sub_messages, sub_deferred, sub_deleted, notSubVars>>

\* the CancelledError reaches _run_task at its await; a task cancelled before
\* its first step never enters the try block
SubCancelled ==
    /\ sub_run.pc \in {"start", "llm", "tool"}
    /\ sub_run.cancel_requested
    /\ IF sub_run.pc = "start"
       THEN /\ sub_run' = [sub_run EXCEPT !.pc = "ended"]
            /\ UNCHANGED <<sub_task, sub_running>>
       ELSE RunEnds("cancelled", "")
    /\ UNCHANGED <<sub_in_tasks, sub_messages, sub_deferred, sub_deleted, notSubVars>>

\* cancel_task: the task is in tasks, is running and has an asyncio task
CancelTask(in_tasks) == in_tasks /\ sub_task.status = "running" /\ sub_running

\* SubagentManager.cancel_task, called by the task API
SubCancelTask ==
    /\ CancelTask(sub_in_tasks)
    /\ sub_run.pc # "ended"
    /\ ~sub_run.cancel_requested
    /\ sub_run' = [sub_run EXCEPT !.cancel_requested = TRUE]
    /\ UNCHANGED <<sub_in_tasks, sub_task, sub_running, sub_messages, sub_deferred,
                   sub_deleted, notSubVars>>

\* SubagentManager.delete_task
SubDeleteTask ==
    /\ sub_in_tasks
    /\ sub_in_tasks' = FALSE
    /\ IF sub_task.status = "running"
       THEN sub_deferred' = "scheduled" /\ sub_deleted' = TRUE
       ELSE UNCHANGED <<sub_deferred, sub_deleted>>
    /\ UNCHANGED <<sub_task, sub_running, sub_run, sub_messages, notSubVars>>

\* the cancel_task call that delete_task handed to asyncio.create_task runs
SubDeferredCancel ==
    /\ sub_deferred = "scheduled"
    /\ sub_deferred' = "ran"
    /\ IF CancelTask(sub_in_tasks) /\ sub_run.pc # "ended"
       THEN sub_run' = [sub_run EXCEPT !.cancel_requested = TRUE]
       ELSE UNCHANGED sub_run
    /\ UNCHANGED <<sub_in_tasks, sub_task, sub_running, sub_messages, sub_deleted, notSubVars>>

\* the assistant message at position i is followed by one tool message per
\* tool call, in order and with the same ids, and by no further tool message
FollowedByItsResults(msgs, i) ==
    LET n == Len(msgs[i].tool_calls)
    IN /\ i + n <= Len(msgs)
       /\ \A k \in 1..n :
            /\ msgs[i + k].role = "tool"
            /\ msgs[i + k].tool_call_id = msgs[i].tool_calls[k]
       /\ i + n + 1 <= Len(msgs) => msgs[i + n + 1].role = "assistant"

\* C32: in every message list handed to the LLM each assistant message with N
\* tool calls is followed at once by exactly N tool messages, in the same
\* order and with the same ids, also after a failed tool and at the iteration
\* cap.
C32_ToolResultsFollowCalls ==
    sub_run.pc = "llm" =>
        /\ \A i \in 1..Len(sub_messages) :
               sub_messages[i].role = "assistant" => FollowedByItsResults(sub_messages, i)
        /\ sub_messages # <<>> => sub_messages[1].role = "assistant"

C32_Witness ==
    /\ sub_run.pc = "llm"
    /\ sub_run.iteration = MaxIterations
    /\ \E i \in 1..Len(sub_messages) : Len(sub_messages[i].tool_calls) = 2

\* C38: once a running task is deleted and the cancel that delete_task
\* scheduled has run, the execution in the background is cancelled: it makes no
\* further LLM or tool call and leaves the running tasks.
C38_DeleteCancelsExecution ==
    (sub_deleted /\ sub_deferred = "ran") =>
        (sub_run.cancel_requested \/ sub_run.pc = "ended")

\* C39: a task whose LLM stream ends with an error chunk finishes as failed
\* with the error recorded, never as completed.
C39_ErrorChunkFailsTask ==
    (sub_run.pc = "ended" /\ sub_run.stream_error) =>
        (sub_task.status = "failed" /\ sub_task.error # "")

(***************************************************************************)
(* Specifications                                                          *)
(***************************************************************************)
RestInit == StopInit /\ DedupInit /\ SumInit /\ MemInit /\ TurnInit /\ StampInit /\ RateInit /\ ApiInit /\ HeartbeatInit /\ SubInit

Init == BusInit /\ HandlerInit /\ CronInit /\ ChanInit /\ RestInit

\* the queue under a client that enqueues with any priority and a consumer
\* that dequeues, handles and marks each message
BusNext ==
    \/ BusTick
    \/ Enqueue
    \/ DequeueImmediate
    \/ DequeueSuspend
    \/ GetterRun
    \/ DequeueResume
    \/ MarkSuccess
    \/ MarkFailed

SpecBus == Init /\ [][BusNext]_vars

\* the queue under the adapters' publish_inbound and the same consumer, over
\* a longer stretch of time
DedupNext ==
    \/ Tick
    \/ PublishInbound
    \/ DequeueImmediate
    \/ DequeueSuspend
    \/ GetterRun
    \/ DequeueResume
    \/ MarkSuccess
    \/ MarkFailed

SpecDedup == Init /\ [][DedupNext]_vars

\* the program: adapters publish, start_processing consumes and spawns
\* handle_message tasks
HandlerNext ==
    \/ Tick
    \/ PublishInbound
    \/ ConsumeImmediate
    \/ ConsumeSuspend
    \/ GetterRun
    \/ ConsumeResume
    \/ ResolveSession
    \/ ResolveSessionRaises
    \/ SaveUserMessage
    \/ SaveUserMessageRaises
    \/ FinishTurn
    \/ FinishTurnRaises

SpecHandler == Init /\ [][HandlerNext]_vars

\* the cron scheduler with the REST endpoints that update, reschedule and run jobs
CronNext ==
    \/ CronTick
    \/ Start
    \/ TriggerReschedule
    \/ TimerCompute
    \/ TimerIdleWake
    \/ TimerWake
    \/ TimerGatherDone
    \/ TimerCancelled
    \/ JobAcquire
    \/ JobLoad
    \/ JobComplete
    \/ JobHeartbeatFails
    \/ JobFail
    \/ JobTimeout
    \/ JobCancelled
    \/ UpdateJob
    \/ ManualTrigger
    \/ ManualFinish
    \/ StopBegin
    \/ StopTimerJoined
    \/ StopWaitDone
    \/ GraceElapses
    \/ StopForceCancel

SpecCron == Init /\ [][CronNext]_vars

\* the running cron scheduler over two cron minutes, with the REST endpoints
\* that change jobs
SchedNext ==
    \/ SchedTick
    \/ Start
    \/ TriggerReschedule
    \/ TimerCompute
    \/ TimerIdleWake
    \/ TimerWake
    \/ TimerGatherDone
    \/ TimerCancelled
    \/ JobAcquire
    \/ JobLoad
    \/ JobHeartbeatFails
    \/ JobComplete
    \/ JobFail
    \/ JobTimeout
    \/ JobCancelled
    \/ UpdateJob
    \/ AddJob

\* the jobs table holds the builtin heartbeat job only
SchedInit ==
    BusInit /\ HandlerInit /\ CronInitWith({j \in JobIds : IsHeartbeat(j)}) /\ ChanInit /\ RestInit

SpecSched == SchedInit /\ [][SchedNext]_vars

\* the scheduler left alone with its jobs: no REST request arrives; the event
\* loop runs every task that can run and the clock advances
FireNext ==
    \/ SchedTick
    \/ Start
    \/ TimerCompute
    \/ TimerWake
    \/ TimerGatherDone
    \/ JobAcquire
    \/ JobLoad
    \/ JobHeartbeatFails
    \/ JobComplete
    \/ JobFail
    \/ JobTimeout

SpecFire == Init /\ [][FireNext]_vars /\ WF_vars(FireNext)

\* the scheduler with failing executions and a failing database
FaultNext ==
    \/ SchedTick
    \/ Start
    \/ TimerCompute
    \/ TimerWakeTimeFails
    \/ TimerIdleWake
    \/ TimerWake
    \/ TimerQueryFails
    \/ TimerGatherDone
    \/ JobAcquire
    \/ JobLoad
    \/ JobHeartbeatFails
    \/ JobComplete
    \/ JobFail
    \/ JobTimeout
    \/ JobCommitFails

SpecFault == Init /\ [][FaultNext]_vars

\* the outbound path: replies published on the bus, cron results delivered by
\* the executor, the dispatcher of the channel manager
DispatchNext ==
    \/ StartAll
    \/ PublishOutbound
    \/ DeliverToChannel
    \/ DispatchTake
    \/ DispatchSendEnds

SpecDispatch == Init /\ [][DispatchNext]_vars

\* the adapters under the supervising tasks of the channel manager
SupNext ==
    \/ StartAll
    \/ SupCallStart
    \/ ConnectionEnds
    \/ SupWake

SpecSup == Init /\ [][SupNext]_vars

\* the supervised adapters when the channel manager is stopped
StopNext ==
    \/ StartAll
    \/ SupCallStart
    \/ ConnectionEnds
    \/ SupWake
    \/ SupExit
    \/ StopAll
    \/ StopChannel

SpecStop == Init /\ [][StopNext]_vars

\* the adapters under a provider that delivers events, some of them again
AdapterNext ==
    \/ OnMessage

SpecAdapter == Init /\ [][AdapterNext]_vars

\* a session that grows, summarized by calls whose LLM request can fail
SummaryNext ==
    \/ AddMessage
    \/ SumBegin
    \/ SumLLMErrorChunk
    \/ SumLLMRaises
    \/ SumNothingToRecord
    \/ SumLLMContent

SpecSummary == Init /\ [][SummaryNext]_vars

\* a session that grows, summarized by calls that all succeed
OverlapNext ==
    \/ AddMessage
    \/ SumBegin
    \/ SumLLMContent

SpecOverlap == Init /\ [][OverlapNext]_vars

\* concurrent callers of append_entry on one memory file
MemoryNext ==
    \/ AppendRead
    \/ AppendWrite

SpecMemory == Init /\ [][MemoryNext]_vars

\* turns of the two front ends that can be cancelled while the agent streams
TurnNext ==
    \/ TurnStart
    \/ CancelTurn
    \/ TurnChunk
    \/ TurnStreamEnds
    \/ TurnFinish

SpecTurn == Init /\ [][TurnNext]_vars

\* one session that gets messages from the web, the channels and the cron jobs
StampNext ==
    \/ StampTick
    \/ SessionAddMessage
    \/ SessionAddMessageRaises
    \/ HandlerSaveMessage
    \/ CronSaveMessages

SpecStamp == Init /\ [][StampNext]_vars

\* a rate limiter of any rate and per under senders that check at any time
RateNext ==
    \/ NewRateLimiter
    \/ RateTick
    \/ Check

SpecRate == Init /\ [][RateNext]_vars

\* the cron API under any requests, with the heartbeat job kept in sync
ApiNext ==
    \/ EnsureHeartbeatJob
    \/ CreateCronJob
    \/ UpdateCronJob
    \/ DeleteCronJob

SpecApi == Init /\ [][ApiNext]_vars

\* the heartbeat service under scheduled and manually triggered runs
HeartbeatNext ==
    \/ HbNextDay
    \/ HbExecuteBegin
    \/ HbExecuteSkips
    \/ HbExecuteGreets

SpecHeartbeat == Init /\ [][HeartbeatNext]_vars

\* the agent loop of one subagent task, left to run
SubLoopNext ==
    \/ SubCreateTask
    \/ SubExecuteTask
    \/ SubStart
    \/ SubStreamEnds
    \/ SubStreamErrorChunk
    \/ SubToolReturns
    \/ SubToolRaises

SpecSubLoop == Init /\ [][SubLoopNext]_vars

\* a subagent task under the cancel and delete requests of the task API
SubagentNext ==
    \/ SubCreateTask
    \/ SubExecuteTask
    \/ SubStart
    \/ SubStreamEnds
    \/ SubStreamErrorChunk
    \/ SubToolReturns
    \/ SubToolRaises
    \/ SubCancelled
    \/ SubCancelTask
    \/ SubDeleteTask
    \/ SubDeferredCancel

SpecSubagent == Init /\ [][SubagentNext]_vars

====
